---- MODULE Spec2Model ----
(***************************************************************************)
(* Verification model of the casecheck rule engine                         *)
(* (lib/rules/engine.ts, lib/rules/builtins.ts).                           *)
(*                                                                         *)
(* Strings that hold dates are modelled by what the code reads from them:  *)
(* a record [k, y, m, d] where k is the shape of the string                *)
(*   "null"    null / undefined / "" (falsy)                               *)
(*   "present" the literal "PRESENT"                                       *)
(*   "ym"      "YYYY-MM"                                                   *)
(*   "ymd"     "YYYY-MM-DD"                                                *)
(*   "text"    any other text (y is a year the text mentions, or 0)        *)
(* A JavaScript Date is a record [year, month, date] with month 0..11.     *)
(***************************************************************************)
EXTENDS Integers, Sequences, FiniteSets, TLC

VARIABLES
    today,        \* the value of new Date() (the wall clock)
    caseData,     \* runRules: the case snapshot handed in
    rules,        \* runRules: the rule set handed in
    findings,     \* runRules: the findings of the last call
    prevFindings, \* runRules: the findings of the call before the last
    raised,       \* runRules: whether the last call raised
    runAt,        \* the wall clock at the last call
    prevRunAt,    \* the wall clock at the call before the last
    runs,         \* number of calls of runRules so far
    nextId,       \* number of ids uuidv4 has handed out
    intervals,    \* findGaps: the rows handed in
    windowStart,  \* findGaps: start of the observation window (a Date)
    windowEnd,    \* findGaps: end of the observation window (a Date)
    gaps,         \* findGaps: the returned gaps
    pc,           \* position of the caller of a pure function: "ready" | "done" |
                  \* "names" | "scored" | "edu" | "matched" | "best" | "found" |
                  \* "build" | "assign" | "assigned" | "store" | "off"
    name1,        \* getTokenOverlapScore: the first name handed in
    name2,        \* getTokenOverlapScore: the second name handed in
    norm1,        \* normalizeName(name1)
    norm2,        \* normalizeName(name2)
    score,        \* the returned token-overlap score, a fraction [num, den]
    eduRow,       \* scoreEducationMatch: the education row handed in
    eduClaim,     \* scoreEducationMatch: the evidence claim handed in
    eduScore,     \* the returned score
    eduOverlap,   \* what calculateDateOverlap returned to scoreEducationMatch
    eduClaims,    \* findBestEducationMatch: the claims handed in
    threshold,    \* findBestEducationMatch: the threshold handed in
    bestMatch,    \* findBestEducationMatch: the returned match, or NoMatch
    roster,       \* buildMembersFromFamilyInfo: the family information extract handed in
    membersBefore,\* assignPAFromScheduleA: the members as they were at the call
    stored,       \* the findings of the case file (data/cases/<id>.json)
    storedAtStart,\* the findings of the case file before any request
    requests      \* the server actions in flight: what each was asked, where it
                  \* stands ("start" | "loaded" | "done") and the case it has loaded

engineVars == <<caseData, rules, findings, prevFindings, raised, runAt, prevRunAt, runs, nextId>>

gapVars == <<intervals, windowStart, windowEnd, gaps, pc>>

matchVars == <<name1, name2, norm1, norm2, score, eduRow, eduClaim, eduScore, eduOverlap,
               eduClaims, threshold, bestMatch>>

memberVars == <<roster, membersBefore>>

storeVars == <<stored, storedAtStart, requests>>

vars == <<today, engineVars, gapVars, matchVars, memberVars, storeVars>>

----------------------------------------------------------------------------
(* Bounds of the model *)

MaxRows == 2

MaxRules == 2

MaxRuns == 2

Years == 2020..2021

InputMonths == {1, 12}

----------------------------------------------------------------------------
(* Date strings and Dates *)

NullStr == [k |-> "null", y |-> 0, m |-> 0, d |-> 0]

PresentStr == [k |-> "present", y |-> 0, m |-> 0, d |-> 0]

YM(y, m) == [k |-> "ym", y |-> y, m |-> m, d |-> 0]

YMD(y, m, d) == [k |-> "ymd", y |-> y, m |-> m, d |-> d]

Text(y) == [k |-> "text", y |-> y, m |-> 0, d |-> 0]

Date(y, m0, d) == [year |-> y, month |-> m0, date |-> d]

NoMonthKey == [ok |-> FALSE, year |-> 0, month |-> 0]

MonthKey(y, m) == [ok |-> TRUE, year |-> y, month |-> m]

\* builtins.ts parseMonth: null for a falsy or unparseable string, the current
\* month for PRESENT, {year, month} for YYYY-MM and YYYY-MM-DD.
parseMonth(str, now) ==
    IF str.k = "null" THEN NoMonthKey
    ELSE IF str.k = "present" THEN MonthKey(now.year, now.month + 1)
    ELSE IF str.k \in {"ym", "ymd"} THEN MonthKey(str.y, str.m)
    ELSE NoMonthKey

\* builtins.ts toMonthKey: `${year}-${month padded to 2}`
toMonthKey(mk) == YM(mk.year, mk.month)

RECURSIVE CarryDown(_, _)
CarryDown(year, month) ==
    IF month > 12 THEN CarryDown(year + 1, month - 12) ELSE <<year, month>>

RECURSIVE CarryUp(_, _)
CarryUp(year, month) ==
    IF month < 1 THEN CarryUp(year - 1, month + 12) ELSE <<year, month>>

\* builtins.ts addMonthsToKey: the two while loops carry the month into the year
addMonthsToKey(monthKey, n, now) ==
    LET mk == parseMonth(monthKey, now) IN
    IF ~mk.ok THEN monthKey
    ELSE LET a == CarryDown(mk.year, mk.month + n)
             b == CarryUp(a[1], a[2])
         IN  toMonthKey(MonthKey(b[1], b[2]))

\* builtins.ts compareMonths: -1, 0, 1 by year, then by month
compareMonths(a, b, now) ==
    LET mkA == parseMonth(a, now)
        mkB == parseMonth(b, now)
    IN  IF ~mkA.ok \/ ~mkB.ok THEN 0
        ELSE IF mkA.year # mkB.year THEN (IF mkA.year < mkB.year THEN -1 ELSE 1)
        ELSE IF mkA.month # mkB.month THEN (IF mkA.month < mkB.month THEN -1 ELSE 1)
        ELSE 0

----------------------------------------------------------------------------
(* findGaps *)

\* lines 96-101: map each row to parsed endpoints, keep rows with both
RECURSIVE ParsedPeriods(_, _)
ParsedPeriods(rows, now) ==
    IF rows = <<>> THEN <<>>
    ELSE LET p == [from |-> parseMonth(Head(rows).from, now),
                   to   |-> parseMonth(Head(rows).to, now)]
             rest == ParsedPeriods(Tail(rows), now)
         IN  IF p.from.ok /\ p.to.ok THEN <<p>> \o rest ELSE rest

\* the comparator of lines 102-106
PeriodCmp(a, b, now) == compareMonths(toMonthKey(a.from), toMonthKey(b.from), now)

\* insert p behind every element that does not compare greater (stable)
RECURSIVE InsertPeriod(_, _, _)
InsertPeriod(p, sorted, now) ==
    IF sorted = <<>> THEN <<p>>
    ELSE IF PeriodCmp(Head(sorted), p, now) > 0 THEN <<p>> \o sorted
    ELSE <<Head(sorted)>> \o InsertPeriod(p, Tail(sorted), now)

\* Array.prototype.sort with that comparator: a stable sort
RECURSIVE SortPeriods(_, _)
SortPeriods(ps, now) ==
    IF ps = <<>> THEN <<>>
    ELSE InsertPeriod(ps[Len(ps)], SortPeriods(SubSeq(ps, 1, Len(ps) - 1), now), now)

Periods(rows, now) == SortPeriods(ParsedPeriods(rows, now), now)

Gap(s, e) == [start |-> s, end |-> e]

\* lines 119-126
LeadingGap(periods, windowStartMonth, now) ==
    LET firstFrom == toMonthKey(periods[1].from) IN
    IF compareMonths(windowStartMonth, firstFrom, now) < 0
    THEN LET gapEnd == addMonthsToKey(firstFrom, -1, now) IN
         IF compareMonths(windowStartMonth, gapEnd, now) <= 0
         THEN <<Gap(windowStartMonth, gapEnd)>>
         ELSE <<>>
    ELSE <<>>

GapAfterNoStrict(periods, i, now) ==
    LET currentEnd   == toMonthKey(periods[i].to)
        nextStart    == toMonthKey(periods[i + 1].from)
        expectedNext == addMonthsToKey(currentEnd, 1, now)
    IN  IF compareMonths(nextStart, expectedNext, now) >= 0
        THEN <<Gap(expectedNext, addMonthsToKey(nextStart, -1, now))>>
        ELSE <<>>

\* lines 136-141 for one i
GapAfter(periods, i, now) ==
    LET currentEnd   == toMonthKey(periods[i].to)
        nextStart    == toMonthKey(periods[i + 1].from)
        expectedNext == addMonthsToKey(currentEnd, 1, now)
    IN  IF compareMonths(nextStart, expectedNext, now) > 0
        THEN <<Gap(expectedNext, addMonthsToKey(nextStart, -1, now))>>
        ELSE <<>>

\* lines 129-142: the loop over i = 0 .. length-2 (1-based here), from i on
RECURSIVE BetweenGaps(_, _, _)
BetweenGaps(periods, i, now) ==
    IF i > Len(periods) - 1 THEN <<>>
    ELSE GapAfter(periods, i, now) \o BetweenGaps(periods, i + 1, now)

\* a trailing gap only when the window ends more than one month after the last row
TrailingGapStrict(periods, windowEndMonth, now) ==
    LET lastTo == toMonthKey(periods[Len(periods)].to) IN
    IF compareMonths(lastTo, windowEndMonth, now) < 0
    THEN LET gapStart == addMonthsToKey(lastTo, 1, now) IN
         IF compareMonths(gapStart, windowEndMonth, now) < 0
         THEN <<Gap(gapStart, windowEndMonth)>>
         ELSE <<>>
    ELSE <<>>

\* lines 144-151
TrailingGap(periods, windowEndMonth, now) ==
    LET lastTo == toMonthKey(periods[Len(periods)].to) IN
    IF compareMonths(lastTo, windowEndMonth, now) < 0
    THEN LET gapStart == addMonthsToKey(lastTo, 1, now) IN
         IF compareMonths(gapStart, windowEndMonth, now) <= 0
         THEN <<Gap(gapStart, windowEndMonth)>>
         ELSE <<>>
    ELSE <<>>

\* lines 108-153: the gaps of the sorted periods
GapsOfPeriods(periods, wStart, wEnd, now) ==
    IF Len(periods) = 0 THEN <<>>
    ELSE LET windowStartMonth == toMonthKey(MonthKey(wStart.year, wStart.month + 1))
             windowEndMonth   == toMonthKey(MonthKey(wEnd.year, wEnd.month + 1))
         IN  LeadingGap(periods, windowStartMonth, now)
             \o BetweenGaps(periods, 1, now)
             \o TrailingGap(periods, windowEndMonth, now)

\* builtins.ts findGaps
findGaps(rows, wStart, wEnd, now) == GapsOfPeriods(Periods(rows, now), wStart, wEnd, now)

----------------------------------------------------------------------------
(* Free-text strings: a name is the sequence of its characters.  The model's *)
(* names are written over the alphabet below.                                *)

Lower(ch) == IF ch = "A" THEN "a" ELSE IF ch = "B" THEN "b" ELSE IF ch = "C" THEN "c" ELSE ch

Upper(ch) ==
    CASE ch = "a" -> "A" [] ch = "b" -> "B" [] ch = "c" -> "C"
      [] ch = "d" -> "D" [] ch = "e" -> "E" [] OTHER -> ch

\* UTF-16 code unit order of the alphabet, as Array.prototype.sort() compares
CharCode(ch) ==
    CASE ch = " " -> 32 [] ch = "," -> 44 [] ch = "." -> 46
      [] ch = "A" -> 65 [] ch = "B" -> 66 [] ch = "C" -> 67 [] ch = "D" -> 68 [] ch = "E" -> 69
      [] ch = "a" -> 97 [] ch = "b" -> 98 [] ch = "c" -> 99 [] ch = "d" -> 100 [] ch = "e" -> 101

toLowerCase(str) == [i \in 1..Len(str) |-> Lower(str[i])]

\* .replace(/,/g, ' ')
CommasToSpaces(str) == [i \in 1..Len(str) |-> IF str[i] = "," THEN " " ELSE str[i]]

\* .split(/\s+/).filter(Boolean): the maximal runs of non-space characters
RECURSIVE SplitTokens(_, _)
SplitTokens(str, cur) ==
    IF str = <<>> THEN (IF cur = <<>> THEN <<>> ELSE <<cur>>)
    ELSE IF Head(str) = " "
         THEN (IF cur = <<>> THEN <<>> ELSE <<cur>>) \o SplitTokens(Tail(str), <<>>)
         ELSE SplitTokens(Tail(str), Append(cur, Head(str)))

RECURSIVE StrLess(_, _)
StrLess(a, b) ==
    IF b = <<>> THEN FALSE
    ELSE IF a = <<>> THEN TRUE
    ELSE IF CharCode(Head(a)) # CharCode(Head(b)) THEN CharCode(Head(a)) < CharCode(Head(b))
    ELSE StrLess(Tail(a), Tail(b))

RECURSIVE InsertToken(_, _)
InsertToken(t, sorted) ==
    IF sorted = <<>> THEN <<t>>
    ELSE IF StrLess(t, Head(sorted)) THEN <<t>> \o sorted
    ELSE <<Head(sorted)>> \o InsertToken(t, Tail(sorted))

RECURSIVE SortTokens(_)
SortTokens(ts) ==
    IF ts = <<>> THEN <<>>
    ELSE InsertToken(ts[Len(ts)], SortTokens(SubSeq(ts, 1, Len(ts) - 1)))

RECURSIVE JoinTokens(_)
JoinTokens(ts) ==
    IF ts = <<>> THEN <<>>
    ELSE IF Len(ts) = 1 THEN ts[1]
    ELSE ts[1] \o <<" ">> \o JoinTokens(Tail(ts))

\* engine.ts checkIdentityMatch, the local normalize
normalize(str) == JoinTokens(SortTokens(SplitTokens(CommasToSpaces(toLowerCase(str)), <<>>)))

----------------------------------------------------------------------------
(* matching/name.ts *)

toUpperCase(str) == [i \in 1..Len(str) |-> Upper(str[i])]

\* .replace(/[,.]/g, ' ')
PunctToSpaces(str) ==
    [i \in 1..Len(str) |-> IF str[i] \in {",", "."} THEN " " ELSE str[i]]

\* a normalization that keeps the order of the tokens
normalizeNameUnsorted(name) ==
    IF name = <<>> THEN <<>>
    ELSE toUpperCase(JoinTokens(SplitTokens(PunctToSpaces(toLowerCase(name)), <<>>)))

\* name.ts normalizeName
normalizeName(name) ==
    IF name = <<>> THEN <<>>
    ELSE toUpperCase(JoinTokens(SortTokens(SplitTokens(PunctToSpaces(toLowerCase(name)), <<>>))))

\* new Set(n.split(' ')) of a normalized, non-empty name
TokenSetOf(n) == LET ts == SplitTokens(n, <<>>) IN {ts[i] : i \in 1..Len(ts)}

\* the number 0
ZeroScore == [num |-> 0, den |-> 1]

\* lines 29-34 on the two normalized names
OverlapOfNormalized(n1, n2) ==
    IF n1 = <<>> \/ n2 = <<>> THEN ZeroScore
    ELSE [num |-> Cardinality(TokenSetOf(n1) \cap TokenSetOf(n2)),
          den |-> Cardinality(TokenSetOf(n1) \cup TokenSetOf(n2))]

\* name.ts getTokenOverlapScore: intersectionSize / unionSize as a fraction
getTokenOverlapScore(n1, n2) == OverlapOfNormalized(normalizeName(n1), normalizeName(n2))

----------------------------------------------------------------------------
\* String.prototype.includes
includes(str, sub) ==
    \E i \in 0..(Len(str) - Len(sub)) : SubSeq(str, i + 1, i + Len(sub)) = sub

----------------------------------------------------------------------------
(* The data the engine reads (lib/types.ts) *)

NoAge == 0 - 1             \* Member.age undefined

NoName == <<>>             \* an absent (null / undefined / empty) name

NoLabel == ""              \* an absent activityType / institution / docType

NoSection == ""            \* rule.config.section absent

NoBox == 0 - 1             \* education.yearsBoxes null

\* a Member (MemberSchema)
Member(id, relationship, fullName, dob, age) ==
    [id |-> id, relationship |-> relationship, fullName |-> fullName, dob |-> dob, age |-> age]

\* Date.prototype comparison of two Dates built at midnight
DateLess(a, b) ==
    \/ a.year < b.year
    \/ a.year = b.year /\ a.month < b.month
    \/ a.year = b.year /\ a.month = b.month /\ a.date < b.date

NoDate == [year |-> 0, month |-> 0, date |-> 0]

\* builtins.ts parseDate; NoDate is null
parseDate(str, now) ==
    IF str.k = "null" THEN NoDate
    ELSE IF str.k = "present" THEN now
    ELSE IF str.k = "ymd" THEN Date(str.y, str.m - 1, str.d)
    ELSE IF str.k = "ym" THEN Date(str.y, str.m - 1, 1)
    ELSE NoDate

\* builtins.ts getMonthDiff
getMonthDiff(a, b) == (b.year - a.year) * 12 + (b.month - a.month)

\* builtins.ts calculateEducationYears
RECURSIVE TotalMonths(_, _)
TotalMonths(rows, now) ==
    IF rows = <<>> THEN 0
    ELSE LET fromDate == parseDate(Head(rows).from, now)
             toDate   == parseDate(Head(rows).to, now)
             months   == getMonthDiff(fromDate, toDate)
         IN  (IF fromDate # NoDate /\ toDate # NoDate /\ months > 0 THEN months ELSE 0)
             + TotalMonths(Tail(rows), now)

calculateEducationYears(rows, now) == TotalMonths(rows, now) \div 12

\* engine.ts memberIsMinor
memberIsMinor(m) == IF m.age # NoAge THEN m.age < 18 ELSE FALSE

\* c.members.find(m => m.id === memberId): the index of the member, 0 for none
MemberIndex(c, id) ==
    IF \E i \in 1..Len(c.members) : c.members[i].id = id
    THEN CHOOSE i \in 1..Len(c.members) :
            /\ c.members[i].id = id
            /\ \A j \in 1..(i - 1) : c.members[j].id # id
    ELSE 0

\* c.extracted.scheduleAByMember[id]: the index of the entry, 0 for none
ScheduleAIndex(c, id) ==
    IF \E i \in 1..Len(c.extracted.scheduleAByMember) : c.extracted.scheduleAByMember[i].id = id
    THEN CHOOSE i \in 1..Len(c.extracted.scheduleAByMember) :
            c.extracted.scheduleAByMember[i].id = id
    ELSE 0

\* c.extracted.supportingByMember[id] || []
SupportingOf(c, id) ==
    IF \E i \in 1..Len(c.extracted.supportingByMember) : c.extracted.supportingByMember[i].id = id
    THEN (CHOOSE e \in {c.extracted.supportingByMember[i] : i \in 1..Len(c.extracted.supportingByMember)} :
            e.id = id).list
    ELSE <<>>

\* the rows of a Schedule A section: section?.rows || []
SectionRows(ex, section) ==
    IF section = "personal_history" THEN ex.personalHistory
    ELSE IF section = "education" THEN ex.education
    ELSE IF section = "addresses" THEN ex.addresses
    ELSE <<>>

----------------------------------------------------------------------------
(* Findings.  Of a Finding the model keeps id, ruleId, severity, memberId,   *)
(* memberName, section, summary, details, docIds and includeInEmail.         *)

NoDetails == [kind |-> "none"]

\* a property the object literal does not set (undefined)
Unset == "undefined"

\* no check sets status or verifiedLabel
Finding(ruleId, severity, memberId, memberName, section, summary, details, include) ==
    [id |-> 0, ruleId |-> ruleId, severity |-> severity, memberId |-> memberId,
     memberName |-> memberName, section |-> section, summary |-> summary,
     details |-> details, docIds |-> <<>>, includeInEmail |-> include,
     status |-> Unset, verifiedLabel |-> Unset]

\* what a check hands back: the list it returns, or an exception
Returned(out) == [threw |-> FALSE, out |-> out]

Thrown == [threw |-> TRUE, out |-> <<>>]

\* run body over the elements of xs in order; an exception ends the loop
RECURSIVE ForEach(_, _)
ForEach(parts, acc) ==
    IF parts = <<>> THEN Returned(acc)
    ELSE IF Head(parts).threw THEN Thrown
    ELSE ForEach(Tail(parts), acc \o Head(parts).out)

----------------------------------------------------------------------------
(* Text tests of the checks, tabulated over the labels the model uses *)

\* /passport|id|birth|national/ on the lower-cased docType
IdDocTypes == {"Passport", "National ID", "Birth Certificate"}

\* /employment|reference|letter|work/i on the docType
HistoryDocTypes == {"Employment Letter", "Reference Letter"}

\* /degree|diploma|transcript|certificate/i on the docType
EducationDocTypes == {"Degree", "Transcript", "Birth Certificate"}

\* activityType?.toLowerCase().includes("employment")
EmploymentLabels == {"Employment", "Self-employment"}

\* /university|college|bachelor|master|phd|bsc|msc|mba/i on institution + " " + fieldOfStudy
UniversityLabels == {"University of Lagos", "City College"}

\* String.prototype.startsWith on two date strings
startsWith(str, prefix) ==
    \/ str = prefix
    \/ str.k = "ymd" /\ prefix.k = "ym" /\ str.y = prefix.y /\ str.m = prefix.m

\* does the date string d contain the first four characters of row endpoint e:
\* rowYear = e?.slice(0, 4); rowYear && d.includes(rowYear)
includesYearOf(d, e) ==
    IF e.k \in {"ym", "ymd"} THEN d.k \in {"ym", "ymd", "text"} /\ d.y = e.y
    ELSE IF e.k = "present" THEN d.k = "present"
    ELSE FALSE

----------------------------------------------------------------------------
(* checkGaps *)

\* a window that always starts ten years back
GapWindowTenYears(member, now) == Date(now.year - 10, now.month, 1)

\* lines 58-69: the observation window of one member
GapWindowStart(member, now) ==
    LET tenYears == Date(now.year - 10, now.month, 1)
        dobDate  == parseDate(member.dob, now)
        turn18   == Date(dobDate.year + 18, dobDate.month, 1)
    IN  IF member.dob.k # "null" /\ dobDate # NoDate /\ DateLess(tenYears, turn18)
        THEN turn18 ELSE tenYears

\* lines 78-112 for one member: a finding per gap, or the affirmative one
GapFindings(r, member, rows, gs) ==
    [g \in 1..Len(gs) |->
        Finding(r.id, r.severity, member.id, member.fullName, r.section, "Gap",
                [kind |-> "gap", start |-> gs[g].start, end |-> gs[g].end], FALSE)]
    \o (IF Len(gs) = 0 /\ Len(rows) > 0
        THEN <<Finding(r.id, "INFO", member.id, member.fullName, r.section,
                       "Verified: No gaps", NoDetails, FALSE)>>
        ELSE <<>>)

checkGapsEntry(c, r, entry, now) ==
    LET mi == MemberIndex(c, entry.id) IN
    IF mi = 0 THEN Returned(<<>>)
    ELSE IF memberIsMinor(c.members[mi]) THEN Returned(<<>>)
    ELSE Returned(GapFindings(r, c.members[mi], SectionRows(entry.ex, r.section),
                              findGaps(SectionRows(entry.ex, r.section),
                                       GapWindowStart(c.members[mi], now), now, now)))

checkGaps(c, r, now) ==
    IF r.section = NoSection THEN Returned(<<>>)
    ELSE ForEach([i \in 1..Len(c.extracted.scheduleAByMember) |->
                    checkGapsEntry(c, r, c.extracted.scheduleAByMember[i], now)], <<>>)

----------------------------------------------------------------------------
(* checkRequiredDocs *)

FormPresent(c, r, m) ==
    IF r.requiredForm = "SCHEDULE_A" THEN ScheduleAIndex(c, m.id) # 0
    ELSE IF r.requiredForm = "FAMILY_INFO"
    THEN \E i \in 1..Len(c.extracted.familyInfoByMember) :
            c.extracted.familyInfoByMember[i].id = m.id
    ELSE FALSE

\* the loop body without the test for minors of lines 123-139
checkRequiredDocsAnyAge(c, r, m) ==
    IF ~FormPresent(c, r, m)
    THEN (IF ~r.hasTemplate THEN Thrown
          ELSE Returned(<<Finding(r.id, r.severity, m.id, m.fullName, NoSection,
                                  "Missing form", NoDetails, FALSE)>>))
    ELSE Returned(<<Finding(r.id, "INFO", m.id, m.fullName, NoSection,
                            "Verified: present", NoDetails, FALSE)>>)

\* lines 123-171 for one member; r.messageTemplate.replace raises a TypeError
\* when the rule carries no messageTemplate
checkRequiredDocsMember(c, r, m) ==
    IF memberIsMinor(m)
    THEN Returned(<<Finding(r.id, "INFO", m.id, m.fullName, NoSection,
                            "Verified: Minor", NoDetails, FALSE)>>)
    ELSE IF ~FormPresent(c, r, m)
    THEN (IF ~r.hasTemplate THEN Thrown
          ELSE Returned(<<Finding(r.id, r.severity, m.id, m.fullName, NoSection,
                                  "Missing form", NoDetails, FALSE)>>))
    ELSE Returned(<<Finding(r.id, "INFO", m.id, m.fullName, NoSection,
                            "Verified: present", NoDetails, FALSE)>>)

checkRequiredDocs(c, r) ==
    ForEach([i \in 1..Len(c.members) |-> checkRequiredDocsMember(c, r, c.members[i])], <<>>)

----------------------------------------------------------------------------
(* checkYearsBox *)

\* (r.config?.tolerance as number) || 0.5, counted in halves
Tolerance2(r) == IF r.tolerance2 = 0 THEN 1 ELSE r.tolerance2

Abs(n) == IF n < 0 THEN 0 - n ELSE n

MemberNameOf(c, id) ==
    IF MemberIndex(c, id) = 0 THEN NoName ELSE c.members[MemberIndex(c, id)].fullName

\* the loop body without the test of line 187: boxes.university of null raises
checkYearsBoxEntryUnguarded(c, r, entry, now) ==
    IF entry.ex.yearsBox = NoBox THEN Thrown
    ELSE LET uniRows == SelectSeq(entry.ex.education, LAMBDA row : row.label \in UniversityLabels)
             calcUni == calculateEducationYears(uniRows, now)
             boxUni  == entry.ex.yearsBox
             det     == [kind |-> "years", computed |-> calcUni, expected |-> boxUni]
         IN  IF 2 * Abs(calcUni - boxUni) > Tolerance2(r)
             THEN (IF ~r.hasTemplate THEN Thrown
                   ELSE Returned(<<Finding(r.id, r.severity, entry.id, MemberNameOf(c, entry.id),
                                           NoSection, "Education years mismatch", det, FALSE)>>))
             ELSE Returned(<<Finding(r.id, "INFO", entry.id, MemberNameOf(c, entry.id),
                                     NoSection, "Verified: University years match", det, FALSE)>>)

\* lines 182-224 for one Schedule A
checkYearsBoxEntry(c, r, entry, now) ==
    IF entry.ex.yearsBox = NoBox THEN Returned(<<>>)
    ELSE LET uniRows == SelectSeq(entry.ex.education, LAMBDA row : row.label \in UniversityLabels)
             calcUni == calculateEducationYears(uniRows, now)
             boxUni  == entry.ex.yearsBox
             det     == [kind |-> "years", computed |-> calcUni, expected |-> boxUni]
         IN  IF 2 * Abs(calcUni - boxUni) > Tolerance2(r)
             THEN (IF ~r.hasTemplate THEN Thrown
                   ELSE Returned(<<Finding(r.id, r.severity, entry.id, MemberNameOf(c, entry.id),
                                           NoSection, "Education years mismatch", det, FALSE)>>))
             ELSE Returned(<<Finding(r.id, "INFO", entry.id, MemberNameOf(c, entry.id),
                                     NoSection, "Verified: University years match", det, FALSE)>>)

checkYearsBox(c, r, now) ==
    ForEach([i \in 1..Len(c.extracted.scheduleAByMember) |->
                checkYearsBoxEntry(c, r, c.extracted.scheduleAByMember[i], now)], <<>>)

----------------------------------------------------------------------------
(* checkCompleteness *)

checkCompleteness(c, r) == Returned(<<>>)

----------------------------------------------------------------------------
(* checkIdentityMatch *)

\* lines 253-284: the name of one supporting extract against the member's
IdentityNameFindings(r, m, ext) ==
    LET mName == normalize(m.fullName)
        sName == normalize(ext.personName)
        det   == [kind |-> "name", extracted |-> ext.personName, expected |-> m.fullName]
    IN  IF ext.personName # NoName /\ mName # <<>>
        THEN (IF mName # sName /\ ~includes(mName, sName) /\ ~includes(sName, mName)
              THEN <<Finding(r.id, r.severity, m.id, m.fullName, NoSection,
                             "Name inconsistency", det, TRUE)>>
              ELSE <<Finding(r.id, "INFO", m.id, m.fullName, NoSection,
                             "Verified: Name match", det, FALSE)>>)
        ELSE <<>>

\* lines 286-322: the dates of one supporting extract against the member's dob
IdentityDobFindings(r, m, ext) ==
    IF Len(ext.dates) > 0 /\ m.dob.k # "null"
    THEN LET anyDobMatch ==
                \E i \in 1..Len(ext.dates) :
                    \/ m.dob = ext.dates[i]
                    \/ startsWith(m.dob, ext.dates[i])
                    \/ startsWith(ext.dates[i], m.dob)
         IN  IF ~anyDobMatch /\ ext.docType \in IdDocTypes
             THEN <<Finding(r.id, r.severity, m.id, m.fullName, NoSection, "DOB inconsistency",
                            [kind |-> "dob", extracted |-> ext.dates, expected |-> m.dob], TRUE)>>
             ELSE IF anyDobMatch
             THEN <<Finding(r.id, "INFO", m.id, m.fullName, NoSection,
                            "Verified: DOB match", NoDetails, FALSE)>>
             ELSE <<>>
    ELSE <<>>

\* lines 331-366: the Schedule A identity against one identity document
IdentityScheduleAFindings(r, m, identity, ext) ==
    IF ext.docType \in IdDocTypes
    THEN (IF identity.name # NoName /\ ext.personName # NoName
             /\ LET sn == normalize(identity.name)
                    en == normalize(ext.personName)
                IN  sn = en \/ includes(sn, en) \/ includes(en, sn)
          THEN <<Finding(r.id, "INFO", m.id, m.fullName, NoSection,
                         "Verified: Schedule A Name matches ID", NoDetails, FALSE)>>
          ELSE <<>>)
         \o
         (IF identity.dob.k # "null" /\ \E i \in 1..Len(ext.dates) : ext.dates[i] = identity.dob
          THEN <<Finding(r.id, "INFO", m.id, m.fullName, NoSection,
                         "Verified: Schedule A DOB matches ID", NoDetails, FALSE)>>
          ELSE <<>>)
    ELSE <<>>

RECURSIVE Flatten(_)
Flatten(lists) ==
    IF lists = <<>> THEN <<>> ELSE Head(lists) \o Flatten(Tail(lists))

checkIdentityMatchMember(c, r, m) ==
    LET supportExtracts == SupportingOf(c, m.id)
        si == ScheduleAIndex(c, m.id)
    IN  Flatten([i \in 1..Len(supportExtracts) |->
                    IdentityNameFindings(r, m, supportExtracts[i])
                    \o IdentityDobFindings(r, m, supportExtracts[i])])
        \o (IF si # 0 /\ c.extracted.scheduleAByMember[si].ex.identity.present
            THEN Flatten([i \in 1..Len(supportExtracts) |->
                            IdentityScheduleAFindings(r, m,
                                c.extracted.scheduleAByMember[si].ex.identity, supportExtracts[i])])
            ELSE <<>>)

checkIdentityMatch(c, r) ==
    LET coreMembers == SelectSeq(c.members, LAMBDA m : m.relationship \in {"PA", "SPOUSE", "CHILD"})
    IN  Returned(Flatten([i \in 1..Len(coreMembers) |-> checkIdentityMatchMember(c, r, coreMembers[i])]))

----------------------------------------------------------------------------
(* checkDateMatch *)

IsRelevantType(section, ext) ==
    \/ section = "personal_history" /\ ext.docType \in HistoryDocTypes
    \/ section = "education" /\ ext.docType \in EducationDocTypes

\* lines 398-406: does some date of the extract set rowMatched
DatesMatchRow(ext, row) ==
    \E i \in 1..Len(ext.dates) :
        LET d == ext.dates[i] IN
        \/ row.from.k # "null" /\ (d = row.from \/ startsWith(d, row.from))
        \/ row.to.k # "null" /\ (d = row.to \/ startsWith(d, row.to))
        \/ includesYearOf(d, row.from)
        \/ includesYearOf(d, row.to)

\* lines 386-426 for one row: the first relevant extract with a matching date
DateMatchRowFindings(r, m, supportDocs, row) ==
    LET hits == {i \in 1..Len(supportDocs) :
                    IsRelevantType(r.section, supportDocs[i]) /\ DatesMatchRow(supportDocs[i], row)}
    IN  IF hits = {} THEN <<>>
        ELSE LET first == CHOOSE i \in hits : \A j \in hits : i <= j IN
             <<Finding(r.id, "INFO", m.id, m.fullName, NoSection,
                       IF r.section = "education" THEN "Verified: Education match"
                                                  ELSE "Verified: Work History match",
                       [kind |-> "dates", extracted |-> supportDocs[first].dates,
                        expected |-> <<row.from, row.to>>], FALSE)>>

checkDateMatchEntry(c, r, entry) ==
    LET mi == MemberIndex(c, entry.id) IN
    IF mi = 0 THEN <<>>
    ELSE LET rows == IF r.section \in {"personal_history", "education"}
                     THEN SectionRows(entry.ex, r.section) ELSE <<>>
         IN  Flatten([i \in 1..Len(rows) |->
                DateMatchRowFindings(r, c.members[mi], SupportingOf(c, entry.id), rows[i])])

checkDateMatch(c, r) ==
    Returned(Flatten([i \in 1..Len(c.extracted.scheduleAByMember) |->
                        checkDateMatchEntry(c, r, c.extracted.scheduleAByMember[i])]))

----------------------------------------------------------------------------
(* checkOverlaps *)

\* engine.ts compareMonths, the local p: year*12+month of /^(\d{4})-(\d{2})/, else 0
EngineMonthNumber(str) == IF str.k \in {"ym", "ymd"} THEN str.y * 12 + str.m ELSE 0

engineCompareMonths(a, b) == EngineMonthNumber(a) - EngineMonthNumber(b)

\* an end that is compared as it stands
UnresolvedEnd(to, now) == to

\* lines 449, 451: "PRESENT" is replaced by the current month key
ResolvedEnd(to, now) ==
    IF to.k = "present" THEN toMonthKey(MonthKey(now.year, now.month + 1)) ELSE to

\* lines 447-454: the pair (a, b) is flagged
OverlapFlagged(a, b, now) ==
    /\ a.from.k # "null" /\ a.to.k # "null" /\ b.from.k # "null" /\ b.to.k # "null"
    /\ engineCompareMonths(a.from, ResolvedEnd(b.to, now)) <= 0
    /\ engineCompareMonths(b.from, ResolvedEnd(a.to, now)) <= 0
    /\ a.label \in EmploymentLabels
    /\ b.label \in EmploymentLabels

\* the pairs (i, j), i < j, in the order of the two nested loops, from (i, j) on
RECURSIVE OverlapPairs(_, _, _, _, _, _)
OverlapPairs(r, member, history, i, j, now) ==
    IF i > Len(history) THEN <<>>
    ELSE IF j > Len(history) THEN OverlapPairs(r, member, history, i + 1, i + 2, now)
    ELSE (IF OverlapFlagged(history[i], history[j], now)
          THEN <<Finding(r.id, r.severity, member.id, member.fullName, NoSection,
                         "Overlapping employment periods",
                         [kind |-> "mismatch", row1 |-> history[i], row2 |-> history[j]], TRUE)>>
          ELSE <<>>)
         \o OverlapPairs(r, member, history, i, j + 1, now)

checkOverlapsEntry(c, r, entry, now) ==
    LET mi == MemberIndex(c, entry.id)
        history == entry.ex.personalHistory
    IN  IF mi = 0 \/ Len(history) = 0 THEN <<>>
        ELSE LET flagged == OverlapPairs(r, c.members[mi], history, 1, 2, now) IN
             IF flagged = <<>>
             THEN <<Finding(r.id, "INFO", c.members[mi].id, c.members[mi].fullName, NoSection,
                            "Verified: No history overlaps", NoDetails, FALSE)>>
             ELSE flagged

checkOverlaps(c, r, now) ==
    Returned(Flatten([i \in 1..Len(c.extracted.scheduleAByMember) |->
                        checkOverlapsEntry(c, r, c.extracted.scheduleAByMember[i], now)]))

----------------------------------------------------------------------------
(* runRules *)

\* the filter of line 7 left out: every rule is dispatched
AllRules(rs) == rs

\* line 7: rules.filter(r => r.active)
ActiveRules(rs) == SelectSeq(rs, LAMBDA r : r.active)

\* a list that outlives the call instead of line 6
StaleFindings(prior) == prior

\* line 6: every call starts from its own empty list
FreshFindings(prior) == <<>>

\* a sort by start month applied to the rows array itself
RECURSIVE InsertRow(_, _, _)
InsertRow(row, sorted, now) ==
    IF sorted = <<>> THEN <<row>>
    ELSE IF PeriodCmp([from |-> parseMonth(row.from, now)],
                      [from |-> parseMonth(Head(sorted).from, now)], now) < 0
         THEN <<row>> \o sorted
    ELSE <<Head(sorted)>> \o InsertRow(row, Tail(sorted), now)

RECURSIVE RowsSortedInPlace(_, _)
RowsSortedInPlace(rows, now) ==
    IF rows = <<>> THEN <<>>
    ELSE InsertRow(rows[Len(rows)], RowsSortedInPlace(SubSeq(rows, 1, Len(rows) - 1), now), now)

\* builtins.ts lines 96-106: the rows array handed to findGaps, after the call.
\* map and filter build a new array and sort orders that one.
RowsAfterFindGaps(rows, now) == rows

\* the case after checkGaps: the only check that hands arrays of the snapshot
\* to code that sorts
ExtractAfterCheckGaps(c, r, entry, now) ==
    LET mi == MemberIndex(c, entry.id) IN
    IF mi = 0 \/ memberIsMinor(c.members[mi]) THEN entry
    ELSE IF r.section = "personal_history"
         THEN [entry EXCEPT !.ex.personalHistory = RowsAfterFindGaps(@, now)]
    ELSE IF r.section = "education"
         THEN [entry EXCEPT !.ex.education = RowsAfterFindGaps(@, now)]
    ELSE IF r.section = "addresses"
         THEN [entry EXCEPT !.ex.addresses = RowsAfterFindGaps(@, now)]
    ELSE entry

CaseAfterCheckGaps(c, r, now) ==
    IF r.section = NoSection THEN c
    ELSE [c EXCEPT !.extracted.scheduleAByMember =
            [i \in 1..Len(@) |-> ExtractAfterCheckGaps(c, r, @[i], now)]]

\* lines 11-33: the switch on rule.type; no case matches an unknown type
Dispatch(c, rule, now) ==
    CASE rule.type = "gap_check"            -> checkGaps(c, rule, now)
      [] rule.type = "required_doc_check"   -> checkRequiredDocs(c, rule)
      [] rule.type = "years_box_check"      -> checkYearsBox(c, rule, now)
      [] rule.type = "completeness_check"   -> checkCompleteness(c, rule)
      [] rule.type = "identity_match_check" -> checkIdentityMatch(c, rule)
      [] rule.type = "date_match_check"     -> checkDateMatch(c, rule)
      [] rule.type = "overlap_check"        -> checkOverlaps(c, rule, now)
      [] OTHER                              -> Returned(<<>>)

CaseAfterDispatch(c, rule, now) ==
    IF rule.type = "gap_check" THEN CaseAfterCheckGaps(c, rule, now) ELSE c

\* the loop body without its try/catch
Rethrown(res) == res

\* lines 10, 34-36: try { ... } catch (e) { console.error(...) }
Caught(res) == IF res.threw THEN Returned(<<>>) ELSE res

\* uuidv4(): the n-th finding made after `base` gets the id base + n
WithIds(fs, base) == [i \in 1..Len(fs) |-> [fs[i] EXCEPT !.id = base + i]]

\* lines 9-37: the loop over the active rules; an exception that leaves the
\* loop body leaves runRules
RECURSIVE RunLoop(_, _, _, _, _)
RECURSIVE RunLoopBody(_, _, _, _, _, _)
RunLoopBody(c, active, acc, now, base, res) ==
    IF res.threw THEN [threw |-> TRUE, out |-> <<>>, c |-> c]
    ELSE RunLoop(CaseAfterDispatch(c, Head(active), now), Tail(active),
                 acc \o WithIds(res.out, base + Len(acc)), now, base)

RunLoop(c, active, acc, now, base) ==
    IF active = <<>> THEN [threw |-> FALSE, out |-> acc, c |-> c]
    ELSE RunLoopBody(c, active, acc, now, base, Caught(Dispatch(c, Head(active), now)))

\* a default that yields to a flag the check set
DefaultUnlessExplicit(f) ==
    [f EXCEPT !.includeInEmail = f.includeInEmail \/ (f.severity = "ERROR")]

\* lines 39-42: the map over the collected findings
DefaultInclude(f) == [f EXCEPT !.includeInEmail = (f.severity = "ERROR")]

\* the findings as the checks made them, before lines 39-42
RawFindings(c, rs, prior, now, base) ==
    RunLoop(c, ActiveRules(rs), FreshFindings(prior), now, base)

\* lines 39-42 over the whole list
MapDefaultInclude(raw) ==
    [threw |-> raw.threw,
     out   |-> [i \in 1..Len(raw.out) |-> DefaultInclude(raw.out[i])],
     c     |-> raw.c]

\* engine.ts runRules
runRules(c, rs, prior, now, base) == MapDefaultInclude(RawFindings(c, rs, prior, now, base))

----------------------------------------------------------------------------
(* matching/education.ts *)

\* null, as parseMonthKey returns it
NoMonthNumber == 0 - 1

\* parseMonthKey: year*12+month of /^(\d{4})-(\d{2})$/, else null
parseMonthKey(monthKey) ==
    IF monthKey.k = "ym" THEN monthKey.y * 12 + monthKey.m ELSE NoMonthNumber

\* getCurrentMonthKey
getCurrentMonthKey(now) == YM(now.year, now.month + 1)

\* lines 62, 64: rowTo === "PRESENT" ? getCurrentMonthKey() : rowTo
EducationEnd(to, now) == IF to.k = "present" THEN getCurrentMonthKey(now) ELSE to

RECURSIVE Gcd(_, _)
\* greatest common divisor of a >= 0 and b >= 0
Gcd(a, b) == IF b = 0 THEN a ELSE Gcd(b, a % b)

\* numbers are kept as exact fractions [num, den] in lowest terms, den > 0
Frac(n, d) == [num |-> n \div Gcd(Abs(n), d), den |-> d \div Gcd(Abs(n), d)]

\* a + b
Plus(a, b) == Frac(a.num * b.den + b.num * a.den, a.den * b.den)

\* a * (wn / wd)
Scaled(a, wn, wd) == Frac(a.num * wn, a.den * wd)

\* !x for a month number or null
NoMonth(n) == n = NoMonthNumber \/ n = 0

\* lines 66-91 on the four parsed month numbers
OverlapOfMonths(rowStart, rowEnd, claimStart, claimEnd) ==
    IF NoMonth(rowStart) \/ NoMonth(rowEnd) \/ NoMonth(claimStart) \/ NoMonth(claimEnd)
    THEN Frac(0, 1)
    ELSE IF rowEnd < claimStart \/ claimEnd < rowStart THEN Frac(0, 1)
    ELSE IF Abs(rowStart - claimStart) <= 1 /\ Abs(rowEnd - claimEnd) <= 1 THEN Frac(1, 1)
    ELSE Frac((IF rowEnd <= claimEnd THEN rowEnd ELSE claimEnd)
                - (IF rowStart >= claimStart THEN rowStart ELSE claimStart) + 1,
              IF rowEnd - rowStart + 1 >= claimEnd - claimStart + 1
              THEN rowEnd - rowStart + 1 ELSE claimEnd - claimStart + 1)

\* education.ts calculateDateOverlap
calculateDateOverlap(rowFrom, rowTo, claimFrom, claimTo, now) ==
    OverlapOfMonths(parseMonthKey(rowFrom), parseMonthKey(EducationEnd(rowTo, now)),
                    parseMonthKey(claimFrom), parseMonthKey(EducationEnd(claimTo, now)))

\* lines 19-22: the institution part, weight 0.4
InstitutionPart(row, claim) ==
    IF row.institution # NoName /\ claim.institution # NoName
    THEN Scaled(getTokenOverlapScore(row.institution, claim.institution), 4, 10)
    ELSE Frac(0, 1)

\* lines 25-35: the field part, weight 0.3, or 0.15 through the credential
FieldPart(row, claim) ==
    IF row.fieldOfStudy # NoName /\ claim.fieldOfStudy # NoName
    THEN Scaled(getTokenOverlapScore(row.fieldOfStudy, claim.fieldOfStudy), 3, 10)
    ELSE IF row.fieldOfStudy # NoName /\ claim.credential # NoName
    THEN (IF \/ includes(normalizeName(claim.credential), normalizeName(row.fieldOfStudy))
             \/ includes(normalizeName(row.fieldOfStudy), normalizeName(claim.credential))
          THEN Frac(15, 100) ELSE Frac(0, 1))
    ELSE Frac(0, 1)

\* line 37: the four date strings are there
DatesPresent(row, claim) ==
    /\ row.from.k # "null" /\ row.to.k # "null"
    /\ claim.fromMonth.k # "null" /\ claim.toMonth.k # "null"

\* lines 38-46: the date part, weight 0.3
DatePart(row, claim, now) ==
    IF DatesPresent(row, claim)
    THEN Scaled(calculateDateOverlap(row.from, row.to, claim.fromMonth, claim.toMonth, now), 3, 10)
    ELSE Frac(0, 1)

\* education.ts scoreEducationMatch
scoreEducationMatch(row, claim, now) ==
    Plus(Plus(InstitutionPart(row, claim), FieldPart(row, claim)), DatePart(row, claim, now))

\* a < b for two fractions
FracLess(a, b) == a.num * b.den < b.num * a.den

\* findBestEducationMatch returned null
NoMatch == [index |-> 0]

\* the loop body with >= for >: a later claim of equal score replaces the match
BestAfterLastTie(best, claim, i, sc, limit) ==
    IF ~FracLess(sc, limit) /\ (best = NoMatch \/ ~FracLess(sc, best.score))
    THEN [index |-> i, claim |-> claim, score |-> sc]
    ELSE best

\* lines 127-130: the match after the i-th claim, whose score is sc; index
\* tells which element of claims the returned object is
BestAfter(best, claim, i, sc, limit) ==
    IF ~FracLess(sc, limit) /\ (best = NoMatch \/ FracLess(best.score, sc))
    THEN [index |-> i, claim |-> claim, score |-> sc]
    ELSE best

RECURSIVE BestLoop(_, _, _, _, _, _)
\* lines 126-131: the loop from the i-th claim on
BestLoop(best, row, claims, i, limit, now) ==
    IF i > Len(claims) THEN best
    ELSE BestLoop(BestAfter(best, claims[i], i, scoreEducationMatch(row, claims[i], now), limit),
                  row, claims, i + 1, limit, now)

\* education.ts findBestEducationMatch
findBestEducationMatch(row, claims, limit, now) ==
    BestLoop(NoMatch, row, claims, 1, limit, now)

----------------------------------------------------------------------------
(* members/infer.ts.  Of a Member the model keeps id, relationship, fullName,
   dob and age. *)

\* builtins.ts calculateAge; NoAge is null
calculateAge(dob, now) ==
    LET dobDate   == parseDate(dob, now)
        years     == now.year - dobDate.year
        monthDiff == now.month - dobDate.month
        age       == IF monthDiff < 0 \/ (monthDiff = 0 /\ now.date < dobDate.date)
                     THEN years - 1 ELSE years
    IN  IF dob.k = "null" \/ dobDate = NoDate THEN NoAge
        ELSE IF age >= 0 THEN age ELSE NoAge

\* lines 224, 238, 253: age || undefined
AgeOrUndefined(age) == IF age = NoAge \/ age = 0 THEN NoAge ELSE age

\* uuidv4(): the ids of the members in the order they are made
MemberIds == <<"m1", "m2", "m3", "m4">>

\* the roster records in the order of lines 216-256, each with the
\* relationship it gets; records without a name are passed over
NamedRecords(extract) ==
    SelectSeq(<<[row |-> extract.applicant, relationship |-> "PA"],
                [row |-> extract.spouse, relationship |-> "SPOUSE"]>>
              \o [i \in 1..Len(extract.children) |->
                    [row |-> extract.children[i], relationship |-> "CHILD"]],
              LAMBDA rec : rec.row.name # NoName)

\* lines 216-256: rawMembers
RawMembers(extract, now) ==
    LET recs == NamedRecords(extract) IN
    [i \in 1..Len(recs) |->
        Member(MemberIds[i], recs[i].relationship, recs[i].row.name, recs[i].row.dob,
               AgeOrUndefined(calculateAge(recs[i].row.dob, now)))]

\* lines 291-293: the rank of a relationship
RelRank(relationship) ==
    CASE relationship = "PA" -> 3
      [] relationship = "SPOUSE" -> 2
      [] relationship = "CHILD" -> 1
      [] OTHER -> 0

\* lines 269-287: is existing the same person as m
SameMember(m, existing) ==
    \/ normalizeName(m.fullName) = normalizeName(existing.fullName)
    \/ ~FracLess(getTokenOverlapScore(m.fullName, existing.fullName), Frac(8, 10))
    \/ /\ m.dob.k # "null" /\ existing.dob.k # "null" /\ m.dob = existing.dob
       /\ \/ includes(normalizeName(m.fullName), normalizeName(existing.fullName))
          \/ includes(normalizeName(existing.fullName), normalizeName(m.fullName))

\* lines 289-303: m is merged into the first member of out it matches, or appended
MergeInto(out, m) ==
    LET hits == {i \in 1..Len(out) : SameMember(m, out[i])} IN
    IF hits = {} THEN Append(out, m)
    ELSE LET first == CHOOSE i \in hits : \A j \in hits : i <= j IN
         IF RelRank(m.relationship) > RelRank(out[first].relationship)
         THEN [out EXCEPT ![first].relationship = m.relationship]
         ELSE out

RECURSIVE DedupLoop(_, _, _)
DedupLoop(out, members, i) ==
    IF i > Len(members) THEN out
    ELSE DedupLoop(MergeInto(out, members[i]), members, i + 1)

\* infer.ts deduplicateMembers
deduplicateMembers(members) == DedupLoop(<<>>, members, 1)

\* infer.ts buildMembersFromFamilyInfo
buildMembersFromFamilyInfo(extract, now) == deduplicateMembers(RawMembers(extract, now))

\* members.find(m => m.id === memberId): the index of the member, 0 for none
FindMember(members, id) == MemberIndex([members |-> members], id)

\* the member found is set to PA and the others are left as they are
PromoteOnly(members, mi) ==
    [members EXCEPT ![mi].relationship = "PA"]

\* lines 333-342: the member found is set to PA, every member with another
\* id who is PA becomes OTHER
PromoteAndDemote(members, mi) ==
    [i \in 1..Len(members) |->
        IF i = mi THEN [members[i] EXCEPT !.relationship = "PA"]
        ELSE IF members[i].id # members[mi].id /\ members[i].relationship = "PA"
        THEN [members[i] EXCEPT !.relationship = "OTHER"]
        ELSE members[i]]

RECURSIVE AssignLoop(_, _, _)
\* lines 328-346: the loop over the entries of scheduleAByMember, from the
\* i-th on; it ends at the first declaration whose member exists
AssignLoop(members, forms, i) ==
    IF i > Len(forms) THEN members
    ELSE IF forms[i].ex.applicantType = "PRINCIPAL_APPLICANT" /\ FindMember(members, forms[i].id) # 0
    THEN PromoteAndDemote(members, FindMember(members, forms[i].id))
    ELSE AssignLoop(members, forms, i + 1)

\* infer.ts assignPAFromScheduleA: the members array after the call
assignPAFromScheduleA(members, forms) == AssignLoop(members, forms, 1)

----------------------------------------------------------------------------
(* The server actions on the stored case (app/actions.ts, lib/storage.ts).
   Of the case file the model keeps the findings, and of a finding its id,
   severity and includeInEmail. *)

StoredFinding(id, severity, include) ==
    [id |-> id, severity |-> severity, includeInEmail |-> include]

\* lines 306-309: the case toggleFindingInEmail saves (the first finding with
\* the id gets the flag); without such a finding nothing is saved
ToggledCase(fs, findingId, include) ==
    LET hits == {i \in 1..Len(fs) : fs[i].id = findingId} IN
    IF hits = {} THEN fs
    ELSE [fs EXCEPT ![CHOOSE i \in hits : \A j \in hits : i <= j].includeInEmail = include]

\* lines 317-323: the case bulkToggleFindings saves
BulkToggledCase(fs, action) ==
    [i \in 1..Len(fs) |->
        IF action = "includeAll" /\ fs[i].severity = "ERROR"
        THEN [fs[i] EXCEPT !.includeInEmail = TRUE]
        ELSE IF action = "clearAll" THEN [fs[i] EXCEPT !.includeInEmail = FALSE]
        ELSE fs[i]]

\* the distance between the ids of one analysis and those of the next
IdStride == 10

\* lines 273-274: the case analyzeCase saves: the findings of a new run over
\* the same documents, with new ids and the flags runRules sets
AnalyzedCase(fs) ==
    [i \in 1..Len(fs) |->
        StoredFinding(fs[i].id + IdStride, fs[i].severity, fs[i].severity = "ERROR")]

\* what a request writes, given the case it has loaded
CaseToSave(req, fs) ==
    CASE req.kind = "toggle"  -> ToggledCase(fs, req.findingId, req.include)
      [] req.kind = "bulk"    -> BulkToggledCase(fs, req.action)
      [] req.kind = "analyze" -> AnalyzedCase(fs)

\* does the request reach saveCase (line 307: only if the finding is found)
Saves(req, fs) ==
    req.kind = "toggle" => \E i \in 1..Len(fs) : fs[i].id = req.findingId

----------------------------------------------------------------------------
(* Inputs of findGaps *)

InputMonthStrs == {YM(y, m) : y \in Years, m \in InputMonths}

EndpointStrs == InputMonthStrs \cup {NullStr, PresentStr}

RowSet == [from : EndpointStrs, to : EndpointStrs]

RowLists == UNION {[1..n -> RowSet] : n \in 0..MaxRows}

TodaySet == {Date(2021, 5, 15), Date(2021, 11, 31)}

WindowDates == {Date(y, m - 1, 1) : y \in Years, m \in InputMonths} \cup TodaySet

\* month number of a Date, as an integer
DateKey(dt) == dt.year * 12 + dt.month + 1

EmptyCase ==
    [members |-> <<>>, documents |-> <<>>,
     extracted |-> [scheduleAByMember |-> <<>>, familyInfoByMember |-> <<>>,
                    supportingByMember |-> <<>>]]

EngineOff ==
    /\ caseData = EmptyCase
    /\ rules = <<>>
    /\ findings = <<>>
    /\ prevFindings = <<>>
    /\ raised = FALSE
    /\ runAt = NoDate
    /\ prevRunAt = NoDate
    /\ runs = 0
    /\ nextId = 0

\* engine.ts lines 724-725 (testCase2_GapExists), at month precision
FebSepRows == <<[from |-> YM(2015, 2), to |-> YM(2015, 2)],
                [from |-> YM(2015, 9), to |-> YM(2015, 9)]>>

\* engine.ts lines 704-705 (testCase1_NoGap_ContinuousMonths), at month precision
DecJanRows == <<[from |-> YM(2022, 12), to |-> YM(2022, 12)],
                [from |-> YM(2023, 1), to |-> YM(2023, 1)]>>

\* the calls of the test fixtures: rows, windowStart, windowEnd
Fixtures ==
    {[intervals |-> FebSepRows, windowStart |-> Date(2015, 0, 1), windowEnd |-> Date(2015, 11, 31)],
     [intervals |-> DecJanRows, windowStart |-> Date(2022, 0, 1), windowEnd |-> Date(2023, 11, 31)]}

NoScore == [num |-> 0, den |-> 0]

MembersOff ==
    /\ roster = <<>>
    /\ membersBefore = <<>>

StoreOff ==
    /\ stored = <<>>
    /\ storedAtStart = <<>>
    /\ requests = <<>>

BestOff ==
    /\ eduOverlap = NoScore
    /\ eduClaims = <<>>
    /\ threshold = NoScore
    /\ bestMatch = NoMatch

MatchOff ==
    /\ BestOff
    /\ name1 = <<>>
    /\ name2 = <<>>
    /\ norm1 = <<>>
    /\ norm2 = <<>>
    /\ score = NoScore
    /\ eduRow = <<>>
    /\ eduClaim = <<>>
    /\ eduScore = NoScore

InitGaps ==
    /\ EngineOff
    /\ MatchOff
    /\ today \in TodaySet
    /\ \/ /\ intervals \in RowLists
          /\ windowStart \in WindowDates
          /\ windowEnd \in {w \in WindowDates : DateKey(windowStart) <= DateKey(w)}
       \/ \E fx \in Fixtures :
            /\ intervals = fx.intervals
            /\ windowStart = fx.windowStart
            /\ windowEnd = fx.windowEnd
    /\ gaps = <<>>
    /\ pc = "ready"
    /\ MembersOff
    /\ StoreOff

CallFindGaps ==
    /\ pc = "ready"
    /\ gaps' = findGaps(intervals, windowStart, windowEnd, today)
    /\ pc' = "done"
    /\ UNCHANGED <<memberVars, storeVars, today, engineVars, intervals, windowStart, windowEnd, matchVars>>

NextGaps == CallFindGaps

SpecGaps == InitGaps /\ [][NextGaps]_vars

----------------------------------------------------------------------------
(* Inputs of runRules *)

NameAB == <<"a", " ", "b">>

NameBA == <<"B", ",", " ", "A">>

NameAC == <<"a", " ", "c">>

NameC == <<"c">>

Row(from, to, label) == [from |-> from, to |-> to, label |-> label]

\* the first member: an adult without dob and age, an adult with both, a minor,
\* an adult who turned 18 more than ten years ago, an adult whose dob is free text
FirstMembers ==
    {Member("m1", "PA", NameAB, NullStr, NoAge),
     Member("m1", "PA", NameAB, YMD(2002, 1, 15), 19),
     Member("m1", "CHILD", NameAB, YMD(2015, 1, 15), 6),
     Member("m1", "PA", NameAB, YMD(1980, 3, 10), 41),
     Member("m1", "PA", NameAB, Text(1980), NoAge)}

SecondMember == Member("m2", "PARENT", NameC, NullStr, NoAge)

UniversityRows == <<Row(YM(2020, 1), YM(2021, 1), "University of Lagos")>>

\* two overlapping employment rows, the later one first; declared years differ
OverlapExtract ==
    [identity |-> [present |-> TRUE, name |-> NameBA, dob |-> YMD(2002, 1, 15)],
     personalHistory |-> <<Row(YM(2021, 1), PresentStr, "Employment"),
                           Row(YM(2020, 1), YM(2021, 1), "Employment")>>,
     education |-> UniversityRows,
     addresses |-> <<>>,
     yearsBox |-> 3,
     applicantType |-> "UNKNOWN"]

\* two rows with missing months between them; declared years agree
GapExtract ==
    [identity |-> [present |-> TRUE, name |-> NameAB, dob |-> NullStr],
     personalHistory |-> <<Row(YM(2020, 1), YM(2020, 1), "Employment"),
                           Row(YM(2021, 1), PresentStr, "Study")>>,
     education |-> UniversityRows,
     addresses |-> <<>>,
     yearsBox |-> 1,
     applicantType |-> "UNKNOWN"]

ScheduleAMaps ==
    {<<>>, <<[id |-> "m1", ex |-> OverlapExtract]>>, <<[id |-> "m1", ex |-> GapExtract]>>}

Supporting(docType, personName, dates) ==
    [docType |-> docType, personName |-> personName, dates |-> dates]

SupportingMaps ==
    {<<>>,
     <<[id |-> "m1",
        list |-> <<Supporting("Passport", NameAC, <<YMD(1999, 1, 1)>>),
                   Supporting("Employment Letter", NameBA, <<YMD(2021, 1, 1), PresentStr>>)>>]>>}

\* a record of the family roster (FamilyMemberRowSchema): name and dob
FamilyRow(name, dob) == [name |-> name, dob |-> dob]

\* no record (null)
NoRow == [name |-> NoName, dob |-> NullStr, none |-> TRUE]

\* a family information extract (FamilyInfoExtractSchema)
FamilyInfo(applicant, spouse, children) ==
    [applicant |-> applicant, spouse |-> spouse, children |-> children]

FamilyOfOne == FamilyInfo(FamilyRow(NameAB, YMD(2002, 1, 15)), NoRow, <<>>)

DocumentLists ==
    {<<>>, <<[id |-> "d1", personId |-> "unassigned"], [id |-> "d2", personId |-> "m1"]>>}

Cases ==
    {[members |-> <<m1, SecondMember>>, documents |-> docs,
      extracted |-> [scheduleAByMember |-> sa, familyInfoByMember |-> <<[id |-> "m1", ex |-> FamilyOfOne]>>,
                     supportingByMember |-> sup]] :
        m1 \in FirstMembers, docs \in DocumentLists, sa \in ScheduleAMaps, sup \in SupportingMaps}

Rule(type, active, severity, section, requiredForm, hasTemplate) ==
    [id |-> "", type |-> type, active |-> active, severity |-> severity, section |-> section,
     requiredForm |-> requiredForm, tolerance2 |-> 0, hasTemplate |-> hasTemplate]

\* the rules whose findings carry the rule's severity, with and without template
SeverityRules ==
    {Rule(t[1], TRUE, sev, t[2], t[3], t[4]) :
        t \in {<<"gap_check", "personal_history", "", TRUE>>,
               <<"required_doc_check", NoSection, "SCHEDULE_A", TRUE>>,
               <<"required_doc_check", NoSection, "SCHEDULE_A", FALSE>>,
               <<"years_box_check", NoSection, "", TRUE>>,
               <<"years_box_check", NoSection, "", FALSE>>,
               <<"identity_match_check", NoSection, "", TRUE>>,
               <<"overlap_check", NoSection, "", TRUE>>},
        sev \in {"ERROR", "WARNING"}}

OtherRules ==
    {Rule("required_doc_check", TRUE, "ERROR", NoSection, "FAMILY_INFO", TRUE),
     Rule("completeness_check", TRUE, "ERROR", NoSection, "", TRUE),
     Rule("date_match_check", TRUE, "ERROR", "personal_history", "", TRUE),
     Rule("gap_check", TRUE, "ERROR", NoSection, "", TRUE),
     Rule("other_check", TRUE, "ERROR", NoSection, "", TRUE),
     Rule("gap_check", FALSE, "ERROR", "personal_history", "", TRUE),
     Rule("identity_match_check", FALSE, "WARNING", NoSection, "", TRUE)}

RuleSet == SeverityRules \cup OtherRules

RuleIds == <<"r1", "r2", "r3", "r4">>

\* rule sets of up to MaxRules rules, the i-th with the i-th id
RuleLists ==
    UNION {{[i \in 1..n |-> [rs[i] EXCEPT !.id = RuleIds[i]]] : rs \in [1..n -> RuleSet]} :
            n \in 0..MaxRules}

ClockDates == {Date(2021, 5, 15), Date(2021, 5, 16), Date(2021, 6, 1)}

GapsOff ==
    /\ intervals = <<>>
    /\ windowStart = NoDate
    /\ windowEnd = NoDate
    /\ gaps = <<>>
    /\ pc = "off"

Init ==
    /\ GapsOff
    /\ MatchOff
    /\ today = Date(2021, 5, 15)
    /\ caseData \in Cases
    /\ rules \in RuleLists
    /\ findings = <<>>
    /\ prevFindings = <<>>
    /\ raised = FALSE
    /\ runAt = NoDate
    /\ prevRunAt = NoDate
    /\ runs = 0
    /\ nextId = 0
    /\ MembersOff
    /\ StoreOff

\* a caller runs the engine on the case and the rules (analyzeCase, lines 272-274)
RunRules ==
    /\ pc = "off"
    /\ runs < MaxRuns
    /\ \E res \in {runRules(caseData, rules, findings, today, nextId)} :
        /\ raised' = res.threw
        /\ findings' = IF res.threw THEN findings ELSE res.out
        /\ caseData' = res.c
        /\ nextId' = nextId + Len(res.out)
    /\ prevFindings' = findings
    /\ runAt' = today
    /\ prevRunAt' = runAt
    /\ runs' = runs + 1
    /\ UNCHANGED <<memberVars, storeVars, today, rules, gapVars, matchVars>>

\* the wall clock moves on
Tick ==
    /\ pc = "off"
    /\ \E later \in ClockDates :
        /\ DateLess(today, later)
        /\ today' = later
    /\ UNCHANGED <<memberVars, storeVars, engineVars, gapVars, matchVars>>

Next == RunRules \/ Tick

Spec == Init /\ [][Next]_vars

----------------------------------------------------------------------------
(* Inputs of normalizeName and getTokenOverlapScore *)

MaxName == 3

NameChars == {"a", "B", " ", ",", "."}

\* every string of up to MaxName characters
NameStrings == UNION {[1..n -> NameChars] : n \in 0..MaxName}

\* tokens: one or two characters, none of them a separator
Tokens == UNION {[1..n -> {"a", "b", "B"}] : n \in 1..2}

InitNames ==
    /\ EngineOff
    /\ today \in TodaySet
    /\ intervals = <<>>
    /\ windowStart = NoDate
    /\ windowEnd = NoDate
    /\ gaps = <<>>
    /\ pc = "names"
    /\ \/ \E A \in Tokens, B \in Tokens :
            /\ name1 = A \o <<" ">> \o B
            /\ name2 = B \o <<",", " ">> \o A
       \/ \E s \in NameStrings : name1 = s /\ name2 = s
       \/ name1 \in Tokens /\ name2 \in NameStrings
    /\ norm1 = <<>>
    /\ norm2 = <<>>
    /\ score = NoScore
    /\ eduRow = <<>>
    /\ eduClaim = <<>>
    /\ eduScore = NoScore
    /\ BestOff
    /\ MembersOff
    /\ StoreOff

\* a caller normalizes both names and scores them against each other
ScoreNames ==
    /\ pc = "names"
    /\ norm1' = normalizeName(name1)
    /\ norm2' = normalizeName(name2)
    /\ score' = getTokenOverlapScore(name1, name2)
    /\ pc' = "scored"
    /\ UNCHANGED <<memberVars, storeVars, today, engineVars, intervals, windowStart, windowEnd, gaps,
                   name1, name2, eduRow, eduClaim, eduScore, eduOverlap,
                   eduClaims, threshold, bestMatch>>

NextNames == ScoreNames

SpecNames == InitNames /\ [][NextNames]_vars

----------------------------------------------------------------------------
(* Inputs of scoreEducationMatch *)

EduNames == {NameAB, NameC, NoName}

EduFroms == {YM(2020, 1), YM(2020, 2), YM(2021, 1), NullStr}

EduTos == {YM(2020, 1), YM(2020, 2), YM(2021, 12), PresentStr, NullStr}

EducationRows ==
    [institution : EduNames, fieldOfStudy : EduNames, from : EduFroms, to : EduTos]

EvidenceClaims ==
    [institution : EduNames, fieldOfStudy : EduNames, credential : {NoName, NameAC},
     fromMonth : EduFroms, toMonth : EduTos]

InitEducation ==
    /\ EngineOff
    /\ today \in TodaySet
    /\ intervals = <<>>
    /\ windowStart = NoDate
    /\ windowEnd = NoDate
    /\ gaps = <<>>
    /\ pc = "edu"
    /\ name1 = <<>>
    /\ name2 = <<>>
    /\ norm1 = <<>>
    /\ norm2 = <<>>
    /\ score = NoScore
    /\ eduRow \in EducationRows
    /\ eduClaim \in EvidenceClaims
    /\ eduScore = NoScore
    /\ eduOverlap = NoScore
    /\ eduClaims = <<>>
    /\ threshold = NoScore
    /\ bestMatch = NoMatch
    /\ MembersOff
    /\ StoreOff

\* a caller scores the claim against the row
ScoreEducation ==
    /\ pc = "edu"
    /\ eduScore' = scoreEducationMatch(eduRow, eduClaim, today)
    /\ eduOverlap' = IF DatesPresent(eduRow, eduClaim)
                     THEN calculateDateOverlap(eduRow.from, eduRow.to,
                                               eduClaim.fromMonth, eduClaim.toMonth, today)
                     ELSE NoScore
    /\ pc' = "matched"
    /\ UNCHANGED <<memberVars, storeVars, today, engineVars, intervals, windowStart, windowEnd, gaps,
                   name1, name2, norm1, norm2, score, eduRow, eduClaim,
                   eduClaims, threshold, bestMatch>>

NextEducation == ScoreEducation

SpecEducation == InitEducation /\ [][NextEducation]_vars

----------------------------------------------------------------------------
(* Inputs of findBestEducationMatch *)

MaxClaims == 3

BestRows ==
    {[institution |-> NameAB, fieldOfStudy |-> NameC, from |-> YM(2020, 1), to |-> t] :
        t \in {YM(2021, 12), PresentStr}}

\* claims that repeat the first row, or differ from it in institution, field
\* of study, dates, or in everything
BestClaims ==
    {[institution |-> i, fieldOfStudy |-> f, credential |-> NoName,
      fromMonth |-> YM(2020, 1), toMonth |-> t] :
        i \in {NameAB, NameC}, f \in {NameC, NoName}, t \in {YM(2021, 12), NullStr}}
    \ {[institution |-> NameC, fieldOfStudy |-> NoName, credential |-> NoName,
         fromMonth |-> YM(2020, 1), toMonth |-> YM(2021, 12)]}

ClaimLists == UNION {[1..n -> BestClaims] : n \in 0..MaxClaims}

\* 0.70 is the default (line 122)
Thresholds == {Frac(70, 100), Frac(0, 1), Frac(1, 1)}

InitBest ==
    /\ EngineOff
    /\ today \in TodaySet
    /\ intervals = <<>>
    /\ windowStart = NoDate
    /\ windowEnd = NoDate
    /\ gaps = <<>>
    /\ pc = "best"
    /\ name1 = <<>>
    /\ name2 = <<>>
    /\ norm1 = <<>>
    /\ norm2 = <<>>
    /\ score = NoScore
    /\ eduRow \in BestRows
    /\ eduClaim = <<>>
    /\ eduScore = NoScore
    /\ eduOverlap = NoScore
    /\ eduClaims \in ClaimLists
    /\ threshold \in Thresholds
    /\ bestMatch = NoMatch
    /\ MembersOff
    /\ StoreOff

\* a caller looks for the best claim for the row
FindBest ==
    /\ pc = "best"
    /\ bestMatch' = findBestEducationMatch(eduRow, eduClaims, threshold, today)
    /\ pc' = "found"
    /\ UNCHANGED <<memberVars, storeVars, today, engineVars, intervals, windowStart, windowEnd, gaps,
                   name1, name2, norm1, norm2, score, eduRow, eduClaim, eduScore,
                   eduOverlap, eduClaims, threshold>>

NextBest == FindBest

SpecBest == InitBest /\ [][NextBest]_vars

----------------------------------------------------------------------------
(* Inputs of checkCompleteness: one member whose family information extract
   holds an applicant record and up to one child record, each with or without
   name and date of birth *)

RosterRows == {FamilyRow(n, b) : n \in {NameAB, NoName}, b \in {YMD(2002, 1, 15), NullStr}}

RosterExtracts ==
    {FamilyInfo(a, NoRow, kids) : a \in RosterRows \cup {NoRow},
                                  kids \in {<<>>} \cup {<<k>> : k \in RosterRows}}

CompletenessCases ==
    {[members |-> <<m1, SecondMember>>, documents |-> <<>>,
      extracted |-> [scheduleAByMember |-> <<>>,
                     familyInfoByMember |-> <<[id |-> "m1", ex |-> fi]>>,
                     supportingByMember |-> <<>>]] :
        m1 \in FirstMembers, fi \in RosterExtracts}

CompletenessRules ==
    {<<[Rule("completeness_check", TRUE, sev, NoSection, "", TRUE) EXCEPT !.id = RuleIds[1]]>> :
        sev \in {"ERROR", "WARNING"}}

InitCompleteness ==
    /\ GapsOff
    /\ MatchOff
    /\ today = Date(2021, 5, 15)
    /\ caseData \in CompletenessCases
    /\ rules \in CompletenessRules
    /\ findings = <<>>
    /\ prevFindings = <<>>
    /\ raised = FALSE
    /\ runAt = NoDate
    /\ prevRunAt = NoDate
    /\ runs = 0
    /\ nextId = 0
    /\ MembersOff
    /\ StoreOff

SpecCompleteness == InitCompleteness /\ [][Next]_vars

----------------------------------------------------------------------------
(* Inputs of the checks on sparse data: the optional parts of the snapshot are
   there or absent in every combination, under one rule of each type *)

SparseRows ==
    {Row(NullStr, NullStr, NoLabel), Row(YM(2020, 1), NullStr, "Employment"),
     Row(NullStr, PresentStr, NoLabel), Row(YM(2020, 1), PresentStr, "Employment")}

SparseRowLists ==
    {<<>>} \cup {<<a>> : a \in SparseRows}
           \cup {<<Row(YM(2020, 1), NullStr, "Employment"), Row(NullStr, NullStr, NoLabel)>>,
                 <<Row(YM(2021, 1), PresentStr, NoLabel), Row(YM(2020, 1), YM(2020, 1), "Employment")>>}

SparseExtracts ==
    [identity : {[present |-> FALSE, name |-> NoName, dob |-> NullStr],
                 [present |-> TRUE, name |-> NoName, dob |-> NullStr]},
     personalHistory : SparseRowLists,
     education : {<<>>, <<Row(NullStr, NullStr, NoLabel)>>, UniversityRows},
     addresses : {<<>>},
     yearsBox : {NoBox, 1},
     applicantType : {"UNKNOWN"}]

SparseSupporting ==
    {<<>>,
     <<[id |-> "m1", list |-> <<Supporting(NoLabel, NoName, <<>>)>>]>>,
     <<[id |-> "m1", list |-> <<Supporting("Passport", NameAB, <<>>),
                                Supporting(NoLabel, NoName, <<YMD(2002, 1, 15)>>)>>]>>}

SparseCases ==
    {[members |-> <<m1, SecondMember>>, documents |-> <<>>,
      extracted |-> [scheduleAByMember |-> sa, familyInfoByMember |-> <<>>,
                     supportingByMember |-> sup]] :
        m1 \in FirstMembers,
        sa \in {<<>>} \cup {<<[id |-> "m1", ex |-> ex]>> : ex \in SparseExtracts},
        sup \in SparseSupporting}

\* one rule of each type, as RuleSchema describes it
SparseRules ==
    {<<[Rule(t[1], TRUE, "ERROR", t[2], t[3], TRUE) EXCEPT !.id = RuleIds[1]]>> :
        t \in {<<"gap_check", "personal_history", "">>,
               <<"gap_check", "education", "">>,
               <<"gap_check", "addresses", "">>,
               <<"required_doc_check", NoSection, "SCHEDULE_A">>,
               <<"years_box_check", NoSection, "">>,
               <<"completeness_check", NoSection, "">>,
               <<"identity_match_check", NoSection, "">>,
               <<"date_match_check", "personal_history", "">>,
               <<"date_match_check", "education", "">>,
               <<"overlap_check", NoSection, "">>}}

InitSparse ==
    /\ GapsOff
    /\ MatchOff
    /\ today = Date(2021, 5, 15)
    /\ caseData \in SparseCases
    /\ rules \in SparseRules
    /\ findings = <<>>
    /\ prevFindings = <<>>
    /\ raised = FALSE
    /\ runAt = NoDate
    /\ prevRunAt = NoDate
    /\ runs = 0
    /\ nextId = 0
    /\ MembersOff
    /\ StoreOff

SpecSparse == InitSparse /\ [][Next]_vars

----------------------------------------------------------------------------
(* Inputs of checkIdentityMatch: one core member and one passport extract,
   each with a name of the set below *)

NameABDE == <<"a", " ", "b", " ", "d", " ", "e">>

NameABCDE == <<"a", " ", "b", " ", "c", " ", "d", " ", "e">>

IdentityNames == {NameAB, NameBA, NameAC, NameC, NameABDE, NameABCDE, NoName}

IdentityCases ==
    {[members |-> <<Member("m1", "PA", mn, NullStr, NoAge), SecondMember>>,
      documents |-> <<>>,
      extracted |-> [scheduleAByMember |-> <<>>,
                     familyInfoByMember |-> <<>>,
                     supportingByMember |->
                        <<[id |-> "m1", list |-> <<Supporting("Passport", sn, <<>>)>>]>>]] :
        mn \in IdentityNames, sn \in IdentityNames}

IdentityRules ==
    <<[Rule("identity_match_check", TRUE, "WARNING", NoSection, "", TRUE) EXCEPT !.id = RuleIds[1]]>>

InitIdentity ==
    /\ GapsOff
    /\ MatchOff
    /\ today = Date(2021, 5, 15)
    /\ caseData \in IdentityCases
    /\ rules = IdentityRules
    /\ findings = <<>>
    /\ prevFindings = <<>>
    /\ raised = FALSE
    /\ runAt = NoDate
    /\ prevRunAt = NoDate
    /\ runs = 0
    /\ nextId = 0
    /\ MembersOff
    /\ StoreOff

SpecIdentity == InitIdentity /\ [][Next]_vars

----------------------------------------------------------------------------
(* Inputs of checkOverlaps: one adult member whose personal history is any list
   of up to MaxHistory rows *)

MaxHistory == 3

HistoryRowSet ==
    {Row(f, t, l) : f \in {YM(2020, 1), YM(2021, 1)},
                    t \in {YM(2020, 1), YM(2021, 12), PresentStr, NullStr},
                    l \in {"Employment", "Study"}}

HistoryLists == UNION {[1..n -> HistoryRowSet] : n \in 0..MaxHistory}

HistoryExtract(history) ==
    [identity |-> [present |-> TRUE, name |-> NameAB, dob |-> NullStr],
     personalHistory |-> history,
     education |-> <<>>,
     addresses |-> <<>>,
     yearsBox |-> NoBox,
     applicantType |-> "UNKNOWN"]

OverlapCases ==
    {[members |-> <<Member("m1", "PA", NameAB, NullStr, NoAge), SecondMember>>,
      documents |-> <<>>,
      extracted |-> [scheduleAByMember |-> <<[id |-> "m1", ex |-> HistoryExtract(h)]>>,
                     familyInfoByMember |-> <<>>,
                     supportingByMember |-> <<>>]] : h \in HistoryLists}

OverlapRules ==
    <<[Rule("overlap_check", TRUE, "WARNING", NoSection, "", TRUE) EXCEPT !.id = RuleIds[1]]>>

InitOverlaps ==
    /\ GapsOff
    /\ MatchOff
    /\ today = Date(2021, 5, 15)
    /\ caseData \in OverlapCases
    /\ rules = OverlapRules
    /\ findings = <<>>
    /\ prevFindings = <<>>
    /\ raised = FALSE
    /\ runAt = NoDate
    /\ prevRunAt = NoDate
    /\ runs = 0
    /\ nextId = 0
    /\ MembersOff
    /\ StoreOff

SpecOverlaps == InitOverlaps /\ [][Next]_vars

----------------------------------------------------------------------------
(* Inputs of assignPAFromScheduleA: three members of any relationship and up
   to two Schedule A forms, keyed by a member's id or by another id *)

Relationships == {"PA", "SPOUSE", "CHILD", "OTHER"}

AssignMembers ==
    {<<Member("m1", r1, NameAB, NullStr, NoAge), Member("m2", r2, NameC, NullStr, NoAge),
       Member("m3", r3, NameAC, NullStr, NoAge)>> :
        r1 \in Relationships, r2 \in Relationships, r3 \in Relationships}

ApplicantTypes == {"PRINCIPAL_APPLICANT", "SPOUSE_DEPENDENT_18PLUS", "UNKNOWN"}

Form(id, applicantType) ==
    [id |-> id, ex |-> [HistoryExtract(<<>>) EXCEPT !.applicantType = applicantType]]

FormMaps ==
    {<<>>} \cup {<<Form(k, t)>> : k \in {"m1", "m2", "m9"}, t \in ApplicantTypes}
           \cup {<<Form(k[1], t1), Form(k[2], t2)>> :
                    k \in {<<"m1", "m2">>, <<"m2", "m1">>, <<"m9", "m1">>, <<"m2", "m9">>},
                    t1 \in ApplicantTypes, t2 \in ApplicantTypes}

AssignCases ==
    {[members |-> ms, documents |-> <<>>,
      extracted |-> [scheduleAByMember |-> fm, familyInfoByMember |-> <<>>,
                     supportingByMember |-> <<>>]] : ms \in AssignMembers, fm \in FormMaps}

InitAssign ==
    /\ GapsOff
    /\ MatchOff
    /\ StoreOff
    /\ today = Date(2021, 5, 15)
    /\ caseData \in AssignCases
    /\ rules = <<>>
    /\ findings = <<>>
    /\ prevFindings = <<>>
    /\ raised = FALSE
    /\ runAt = NoDate
    /\ prevRunAt = NoDate
    /\ runs = 0
    /\ nextId = 0
    /\ roster = <<>>
    /\ membersBefore = <<>>

\* analyzeCase, line 233
AssignPA ==
    /\ pc = "off"
    /\ runs = 0
    /\ membersBefore = <<>>
    /\ caseData.members # <<>>
    /\ membersBefore' = caseData.members
    /\ caseData' = [caseData EXCEPT !.members =
                        assignPAFromScheduleA(@, caseData.extracted.scheduleAByMember)]
    /\ UNCHANGED <<today, rules, findings, prevFindings, raised, runAt, prevRunAt, runs, nextId,
                   gapVars, matchVars, roster, storeVars>>

NextAssign == AssignPA

SpecAssign == InitAssign /\ [][NextAssign]_vars

----------------------------------------------------------------------------
(* Inputs of buildMembersFromFamilyInfo: a family information extract with or
   without applicant and spouse and with up to MaxChildren children, born up
   to 18 years before the day of the analysis (June 15, 2021) or without a
   date of birth; then the engine runs on the members built *)

MaxChildren == 2

ChildRows ==
    {FamilyRow(n, b) : n \in {NameC, NoName},
                       b \in {YMD(2020, 12, 1), YMD(2015, 1, 15), YMD(2003, 6, 16),
                              YMD(2003, 6, 15), NullStr}}

BuildRosters ==
    {FamilyInfo(a, sp, kids) :
        a \in {FamilyRow(NameAB, YMD(1980, 3, 10)), NoRow},
        sp \in {FamilyRow(NameBA, YMD(1980, 3, 10)), NoRow},
        kids \in UNION {[1..n -> ChildRows] : n \in 0..MaxChildren}}

BuildCases ==
    {[members |-> <<>>, documents |-> <<>>,
      extracted |-> [scheduleAByMember |-> sa, familyInfoByMember |-> <<>>,
                     supportingByMember |-> <<>>]] :
        sa \in {<<>>, <<[id |-> "m1", ex |-> GapExtract]>>, <<[id |-> "m2", ex |-> GapExtract]>>}}

BuildRules ==
    {<<[Rule(t[1], TRUE, "ERROR", t[2], t[3], TRUE) EXCEPT !.id = RuleIds[1]]>> :
        t \in {<<"gap_check", "personal_history", "">>,
               <<"required_doc_check", NoSection, "SCHEDULE_A">>,
               <<"required_doc_check", NoSection, "FAMILY_INFO">>}}

InitBuild ==
    /\ MatchOff
    /\ StoreOff
    /\ intervals = <<>>
    /\ windowStart = NoDate
    /\ windowEnd = NoDate
    /\ gaps = <<>>
    /\ pc = "build"
    /\ today = Date(2021, 5, 15)
    /\ caseData \in BuildCases
    /\ rules \in BuildRules
    /\ findings = <<>>
    /\ prevFindings = <<>>
    /\ raised = FALSE
    /\ runAt = NoDate
    /\ prevRunAt = NoDate
    /\ runs = 0
    /\ nextId = 0
    /\ roster \in BuildRosters
    /\ membersBefore = <<>>

\* analyzeCase, lines 174-180, on a case without members yet
BuildMembers ==
    /\ pc = "build"
    /\ caseData' = [caseData EXCEPT !.members = buildMembersFromFamilyInfo(roster, today)]
    /\ pc' = "off"
    /\ UNCHANGED <<today, rules, findings, prevFindings, raised, runAt, prevRunAt, runs, nextId,
                   intervals, windowStart, windowEnd, gaps, matchVars, memberVars, storeVars>>

NextBuild == BuildMembers \/ RunRules

SpecBuild == InitBuild /\ [][NextBuild]_vars

----------------------------------------------------------------------------
(* Inputs of the server actions: a case file with two findings and two
   requests on it, which run concurrently *)

StoredCases ==
    {<<StoredFinding(1, "ERROR", a), StoredFinding(2, "WARNING", b)>> :
        a \in BOOLEAN, b \in BOOLEAN}

Request(kind, findingId, include, action) ==
    [kind |-> kind, findingId |-> findingId, include |-> include, action |-> action,
     pc |-> "start", loaded |-> <<>>]

RequestSet ==
    {Request("toggle", f, b, "") : f \in 1..3, b \in BOOLEAN}
    \cup {Request("bulk", 0, FALSE, a) : a \in {"includeAll", "clearAll"}}
    \cup {Request("analyze", 0, FALSE, "")}

InitStore ==
    /\ EngineOff
    /\ MatchOff
    /\ MembersOff
    /\ today = Date(2021, 5, 15)
    /\ intervals = <<>>
    /\ windowStart = NoDate
    /\ windowEnd = NoDate
    /\ gaps = <<>>
    /\ pc = "store"
    /\ stored \in StoredCases
    /\ storedAtStart = stored
    /\ requests \in [1..2 -> RequestSet]

\* await getCase(caseId): request p reads the case file
LoadCase(p) ==
    /\ pc = "store"
    /\ requests[p].pc = "start"
    /\ requests' = [requests EXCEPT ![p].pc = "loaded", ![p].loaded = stored]
    /\ UNCHANGED <<today, engineVars, gapVars, matchVars, memberVars, stored, storedAtStart>>

\* the change in memory and await saveCase(caseData): request p writes the
\* whole case it has loaded back to the file
SaveCase(p) ==
    /\ pc = "store"
    /\ requests[p].pc = "loaded"
    /\ stored' = IF Saves(requests[p], requests[p].loaded)
                 THEN CaseToSave(requests[p], requests[p].loaded)
                 ELSE stored
    /\ requests' = [requests EXCEPT ![p].pc = "done"]
    /\ UNCHANGED <<today, engineVars, gapVars, matchVars, memberVars, storedAtStart>>

NextStore == \E p \in 1..2 : LoadCase(p) \/ SaveCase(p)

SpecStore == InitStore /\ [][NextStore]_vars

----------------------------------------------------------------------------
(* Properties of findGaps *)

\* the integer month key year*12+month of a YYYY-MM string
K(str) == str.y * 12 + str.m

MK(mk) == mk.year * 12 + mk.month

IsMonthStr(str) == str.k = "ym" /\ str.m \in 1..12

\* the rows the gap computation can use: both endpoints parse and from <= to
UsableRows ==
    {i \in 1..Len(intervals) :
        LET f == parseMonth(intervals[i].from, today)
            t == parseMonth(intervals[i].to, today)
        IN  f.ok /\ t.ok /\ MK(f) <= MK(t)}

Covered(k) ==
    \E i \in UsableRows :
        /\ MK(parseMonth(intervals[i].from, today)) <= k
        /\ k <= MK(parseMonth(intervals[i].to, today))

\* C8: every month of every returned gap is covered by no usable row.
GapsOnlyUncovered ==
    pc = "done" =>
        \A g \in 1..Len(gaps) :
            \A k \in K(gaps[g].start)..K(gaps[g].end) : ~Covered(k)

\* C9: every returned gap lies inside the observation window.
GapsInsideWindow ==
    pc = "done" =>
        \A g \in 1..Len(gaps) :
            /\ DateKey(windowStart) <= K(gaps[g].start)
            /\ K(gaps[g].end) <= DateKey(windowEnd)

RECURSIVE ExpectedBetween(_, _)
ExpectedBetween(P, i) ==
    IF i > Len(P) - 1 THEN <<>>
    ELSE (IF MK(P[i + 1].from) > MK(P[i].to) + 1
          THEN <<(<<MK(P[i].to) + 1, MK(P[i + 1].from) - 1>>)>>
          ELSE <<>>)
         \o ExpectedBetween(P, i + 1)

GapKeys(gs) == [g \in 1..Len(gs) |-> <<K(gs[g].start), K(gs[g].end)>>]

\* C10: with the usable rows sorted ascending by start month, the gaps between
\* consecutive rows are exactly the ranges [end(i)+1, start(i+1)-1] of the pairs
\* with start(i+1) > end(i)+1, in order; adjacent or overlapping rows give none.
BetweenGapsExact ==
    pc = "done" =>
        LET P == Periods(intervals, today) IN
        Len(P) > 0 =>
            LET lead  == IF DateKey(windowStart) < MK(P[1].from) THEN 1 ELSE 0
                trail == IF MK(P[Len(P)].to) < DateKey(windowEnd) THEN 1 ELSE 0
                mid   == SubSeq(gaps, lead + 1, Len(gaps) - trail)
            IN  /\ \A i \in 1..(Len(P) - 1) : MK(P[i].from) <= MK(P[i + 1].from)
                /\ GapKeys(mid) = ExpectedBetween(P, 1)
                /\ \A g \in 1..Len(mid) : IsMonthStr(mid[g].start) /\ IsMonthStr(mid[g].end)

\* two usable rows with missing months between them, and the gap was returned
BetweenGapsWitness ==
    /\ pc = "done"
    /\ LET P == Periods(intervals, today) IN
        /\ Len(P) = 2
        /\ MK(P[2].from) > MK(P[1].to) + 1
        /\ \E g \in 1..Len(gaps) :
              K(gaps[g].start) = MK(P[1].to) + 1 /\ K(gaps[g].end) = MK(P[2].from) - 1

----------------------------------------------------------------------------
(* Properties of runRules *)

\* findings with the generated ids blanked
StripIds(fs) == [i \in 1..Len(fs) |-> [fs[i] EXCEPT !.id = 0]]

\* the rule set without its i-th rule
WithoutRule(rs, i) == SelectSeq(rs, LAMBDA r : r.id # rs[i].id)

\* the indices of the active rules whose check raises on the case
ThrowingRules ==
    {i \in 1..Len(rules) : rules[i].active /\ Dispatch(caseData, rules[i], runAt).threw}

\* C1: after a run, runRules has not raised, and for every active rule whose
\* check raised, no finding carries that rule's id and the findings are those
\* of a run on the rule set without that rule (ids aside).
RuleFaultIsolated ==
    runs > 0 =>
        /\ ~raised
        /\ \A i \in ThrowingRules :
              /\ \A f \in 1..Len(findings) : findings[f].ruleId # rules[i].id
              /\ StripIds(findings)
                    = StripIds(runRules(caseData, WithoutRule(rules, i), <<>>, runAt, 0).out)

\* a run in which one rule's check raised and another rule produced findings
RuleFaultWitness ==
    /\ runs > 0
    /\ ThrowingRules # {}
    /\ findings # <<>>

\* C2: a finding that its check created with includeInEmail = true has
\* includeInEmail = true in the returned sequence, whatever its severity.
ExplicitIncludeKept ==
    runs > 0 =>
        LET raw == RawFindings(caseData, rules, <<>>, runAt, 0).out IN
        /\ Len(raw) = Len(findings)
        /\ \A i \in 1..Len(findings) : raw[i].includeInEmail => findings[i].includeInEmail

\* C3: every returned finding has includeInEmail = true exactly when its
\* severity is ERROR, and false when it is WARNING or INFO.
IncludeIffError ==
    runs > 0 =>
        \A i \in 1..Len(findings) :
            findings[i].includeInEmail = (findings[i].severity = "ERROR")

\* a run that returned an ERROR, a WARNING and an INFO finding, one of them a
\* WARNING that its check had created with the flag set
IncludeIffErrorWitness ==
    /\ runs > 0
    /\ \A sev \in {"ERROR", "WARNING", "INFO"} :
          \E i \in 1..Len(findings) : findings[i].severity = sev
    /\ LET raw == RawFindings(caseData, rules, <<>>, runAt, 0).out IN
          \E i \in 1..Len(findings) :
              /\ raw[i].includeInEmail
              /\ findings[i].severity = "WARNING"
              /\ ~findings[i].includeInEmail

\* C4: for every document of the snapshot that is assigned to "unassigned",
\* the returned findings hold a WARNING finding that belongs to no rule.
UnassignedDocsWarned ==
    runs > 0 =>
        \A d \in 1..Len(caseData.documents) :
            caseData.documents[d].personId = "unassigned" =>
                \E f \in 1..Len(findings) :
                    /\ findings[f].severity = "WARNING"
                    /\ \A i \in 1..Len(rules) : findings[f].ruleId # rules[i].id

\* C5: two runs on the same snapshot and rule set in the same month return
\* findings equal in length, order and every field but the id.
RunsAgree ==
    (runs = 2 /\ runAt.year = prevRunAt.year /\ runAt.month = prevRunAt.month) =>
        StripIds(findings) = StripIds(prevFindings)

\* two runs on different days of one month that returned findings, with fresh ids
RunsAgreeWitness ==
    /\ runs = 2
    /\ runAt.year = prevRunAt.year /\ runAt.month = prevRunAt.month
    /\ runAt.date # prevRunAt.date
    /\ findings # <<>>
    /\ findings # prevFindings

\* C6: no step changes the case snapshot or the rule set.
SnapshotUnchanged == [][caseData' = caseData /\ rules' = rules]_vars

\* a run of an active gap rule over an adult's timeline whose rows are not in
\* start order
SnapshotUnchangedWitness ==
    /\ runs > 0
    /\ \E i \in 1..Len(rules) :
          /\ rules[i].active /\ rules[i].type = "gap_check"
          /\ rules[i].section = "personal_history"
          /\ \E f \in 1..Len(findings) : findings[f].ruleId = rules[i].id
    /\ \E e \in 1..Len(caseData.extracted.scheduleAByMember) :
          LET rows == caseData.extracted.scheduleAByMember[e].ex.personalHistory IN
          Len(rows) = 2 /\ K(rows[2].from) < K(rows[1].from)

\* lines 11-33: the rule types the switch has a case for
RecognizedTypes ==
    {"gap_check", "required_doc_check", "years_box_check", "completeness_check",
     "identity_match_check", "date_match_check", "overlap_check"}

\* the indices of the rules that are inactive or of no recognized type
SkippedRules ==
    {i \in 1..Len(rules) : ~rules[i].active \/ rules[i].type \notin RecognizedTypes}

\* C7: after a run, runRules has not raised, no finding carries the id of a rule
\* that is inactive or of an unrecognized type, and the findings are those of a
\* run on the remaining rules alone (ids aside).
SkippedRulesInert ==
    runs > 0 =>
        /\ ~raised
        /\ \A f \in 1..Len(findings) : \A i \in SkippedRules : findings[f].ruleId # rules[i].id
        /\ StripIds(findings)
              = StripIds(runRules(caseData,
                                  SelectSeq(rules, LAMBDA r : r.active /\ r.type \in RecognizedTypes),
                                  <<>>, runAt, 0).out)

\* a run with an inactive rule whose check would have produced findings, next
\* to a rule that produced some
SkippedRulesWitness ==
    /\ runs > 0
    /\ \E i \in SkippedRules :
          /\ ~rules[i].active
          /\ Dispatch(caseData, rules[i], runAt).out # <<>>
    /\ findings # <<>>

----------------------------------------------------------------------------
(* Properties of findGaps on the calls of the test fixtures *)

\* C11: findGaps on the single-month rows February 2015 and September 2015 over
\* the window January 2015 .. December 2015 returns exactly one gap,
\* [2015-03, 2015-08]; in general two usable rows with missing months between
\* them, inside a wider window, yield exactly one gap, the months strictly
\* between them.
FebSepOneGap ==
    pc = "done" =>
        /\ (intervals = FebSepRows /\ windowStart = Date(2015, 0, 1)
                /\ windowEnd = Date(2015, 11, 31))
              => gaps = <<Gap(YM(2015, 3), YM(2015, 8))>>
        /\ LET P == Periods(intervals, today) IN
              (/\ Len(P) = 2
               /\ MK(P[1].from) <= MK(P[1].to) /\ MK(P[2].from) <= MK(P[2].to)
               /\ MK(P[2].from) > MK(P[1].to) + 1
               /\ DateKey(windowStart) < MK(P[1].from)
               /\ MK(P[2].to) < DateKey(windowEnd))
              => GapKeys(gaps) = <<(<<MK(P[1].to) + 1, MK(P[2].from) - 1>>)>>

\* C12: findGaps on the single-month rows December 2022 and January 2023 over
\* the window January 2022 .. December 2023 returns no gap.
DecJanNoGap ==
    (pc = "done" /\ intervals = DecJanRows /\ windowStart = Date(2022, 0, 1)
        /\ windowEnd = Date(2023, 11, 31))
      => gaps = <<>>

\* the leading gap of the claim, as a pair of month numbers
ExpectedLeading(P) ==
    IF DateKey(windowStart) < MK(P[1].from)
    THEN <<(<<DateKey(windowStart), MK(P[1].from) - 1>>)>>
    ELSE <<>>

\* the trailing gap of the claim, as a pair of month numbers
ExpectedTrailing(P) ==
    IF MK(P[Len(P)].to) < DateKey(windowEnd)
    THEN <<(<<MK(P[Len(P)].to) + 1, DateKey(windowEnd)>>)>>
    ELSE <<>>

CurrentMonth == today.year * 12 + today.month + 1

----------------------------------------------------------------------------
(* Properties of the checks *)

\* the month number of the claim's window start for a member
ExpectedWindowStart(member, now) ==
    LET tenYears == (now.year - 10) * 12 + now.month + 1 IN
    IF member.dob.k \in {"ym", "ymd"}
    THEN LET turn18 == (member.dob.y + 18) * 12 + member.dob.m IN
         IF turn18 > tenYears THEN turn18 ELSE tenYears
    ELSE tenYears

\* the first day of the month with number k
FirstOfMonth(k) == Date((k - 1) \div 12, (k - 1) % 12, 1)

\* the gaps reported by a rule for a member, in order
ReportedGaps(fs, ruleId, memberId) ==
    LET sel == SelectSeq(fs, LAMBDA f : f.ruleId = ruleId /\ f.memberId = memberId
                                        /\ f.summary = "Gap")
    IN  [g \in 1..Len(sel) |-> Gap(sel[g].details.start, sel[g].details.end)]

\* the active gap rules that name a section
ActiveGapRules ==
    {i \in 1..Len(rules) : rules[i].active /\ rules[i].type = "gap_check"
                              /\ rules[i].section # NoSection}

\* C15: for a non-minor member the gaps a gap rule reports are those of the
\* window that starts on the first day of the later of the month of the 18th
\* birthday and the month ten years before today (ten years before today when
\* the date of birth is missing or unparseable) and that ends in the current
\* month.
GapWindowPolicy ==
    runs > 0 =>
        \A i \in ActiveGapRules :
            \A e \in 1..Len(caseData.extracted.scheduleAByMember) :
                LET entry == caseData.extracted.scheduleAByMember[e]
                    mi    == MemberIndex(caseData, entry.id)
                IN  (mi # 0 /\ ~memberIsMinor(caseData.members[mi])) =>
                        ReportedGaps(findings, rules[i].id, entry.id)
                          = findGaps(SectionRows(entry.ex, rules[i].section),
                                     FirstOfMonth(ExpectedWindowStart(caseData.members[mi], runAt)),
                                     runAt, runAt)

\* a run of a gap rule for a member who turned 18 less than ten years ago: the
\* reported gaps start no earlier than the month of the 18th birthday
GapWindowWitness ==
    /\ runs > 0
    /\ ActiveGapRules # {}
    /\ caseData.members[1].dob = YMD(2002, 1, 15)
    /\ \E i \in ActiveGapRules :
          LET gs == ReportedGaps(findings, rules[i].id, "m1") IN
          /\ gs # <<>>
          /\ \A g \in 1..Len(gs) : K(gs[g].start) >= 2020 * 12 + 1

\* the personal history of the first Schedule A entry
History == caseData.extracted.scheduleAByMember[1].ex.personalHistory

\* the month number of a row's end, PRESENT being the month of the run
EndMonth(row) == IF row.to = PresentStr THEN runAt.year * 12 + runAt.month + 1 ELSE K(row.to)

Max(a, b) == IF a >= b THEN a ELSE b

Min(a, b) == IF a <= b THEN a ELSE b

\* the claim's test for a pair of rows with all four endpoints present
QualifyingPair(a, b) ==
    /\ Max(K(a.from), K(b.from)) <= Min(EndMonth(a), EndMonth(b))
    /\ a.label \in EmploymentLabels
    /\ b.label \in EmploymentLabels

\* the failing findings of the overlap rule that name rows a and b
OverlapFindings(a, b) ==
    SelectSeq(findings, LAMBDA f : /\ f.summary = "Overlapping employment periods"
                                   /\ f.details.row1 = a /\ f.details.row2 = b)

\* C16: for every pair of personal-history rows with all four endpoints
\* present, the overlap rule emits one failing finding if
\* max(start_a, start_b) <= min(end_a, end_b) in month numbers and both labels
\* are employment-type, and none otherwise.
OverlapIffIntersecting ==
    (runs > 0 /\ Len(caseData.extracted.scheduleAByMember) = 1) =>
        \A a \in HistoryRowSet, b \in HistoryRowSet :
            (a.to # NullStr /\ b.to # NullStr) =>
                Len(OverlapFindings(a, b))
                  = Cardinality({p \in (1..Len(History)) \X (1..Len(History)) :
                                    /\ p[1] < p[2]
                                    /\ History[p[1]] = a /\ History[p[2]] = b
                                    /\ QualifyingPair(a, b)})

\* the findings of the overlap rule for a member with the given summary
OverlapRuleFindings(memberId, summary) ==
    SelectSeq(findings, LAMBDA f : f.ruleId = rules[1].id /\ f.memberId = memberId
                                   /\ f.summary = summary)

\* C17: every member with a Schedule A extract receives exactly one affirmative
\* INFO finding from the overlap rule when no pair of rows was flagged, rows
\* or no rows, and none when some pair was flagged.
OverlapAffirmative ==
    (runs > 0 /\ rules = OverlapRules) =>
        \A e \in 1..Len(caseData.extracted.scheduleAByMember) :
            LET id      == caseData.extracted.scheduleAByMember[e].id
                flagged == OverlapRuleFindings(id, "Overlapping employment periods")
                passed  == OverlapRuleFindings(id, "Verified: No history overlaps")
            IN  /\ MemberIndex(caseData, id) # 0
                /\ Len(passed) = (IF flagged = <<>> THEN 1 ELSE 0)
                /\ \A f \in 1..Len(passed) : passed[f].severity = "INFO"

----------------------------------------------------------------------------
(* Properties of name matching *)

\* name1 is "A B" and name2 is "B, A" for two tokens A and B
Swapped ==
    \E A \in Tokens, B \in Tokens :
        name1 = A \o <<" ">> \o B /\ name2 = B \o <<",", " ">> \o A

\* C18 as stated: normalizeName("A B") = normalizeName("B, A") for all tokens
\* A and B, and the token-overlap score of every string with itself is 1.
NormalizeSymmetricAll ==
    pc = "scored" =>
        /\ Swapped => norm1 = norm2
        /\ name1 = name2 => (score.num = score.den /\ score.den > 0)

\* C18: normalizeName("A B") = normalizeName("B, A") for all tokens A and B,
\* and the token-overlap score of a string with itself is 1 when the string
\* holds at least one token and 0 when it holds none.
NormalizeSymmetric ==
    pc = "scored" =>
        /\ Swapped => norm1 = norm2
        /\ (name1 = name2 /\ norm1 # <<>>) => (score.num = score.den /\ score.den > 0)
        /\ (name1 = name2 /\ norm1 = <<>>) => score = ZeroScore

\* "a B" against "B, a": both normalize to "A B" and score 1
NormalizeWitness ==
    /\ pc = "scored"
    /\ name1 = <<"a", " ", "B">>
    /\ name2 = <<"B", ",", " ", "a">>
    /\ norm1 = <<"A", " ", "B">>
    /\ norm2 = norm1
    /\ score = [num |-> 2, den |-> 2]

\* the claim's three tiers on two names: normalized equality, normalized
\* containment, token overlap of at least 0.8
NameTiersMatch(n1, n2) ==
    \/ normalizeName(n1) = normalizeName(n2)
    \/ includes(normalizeName(n1), normalizeName(n2))
    \/ includes(normalizeName(n2), normalizeName(n1))
    \/ 5 * getTokenOverlapScore(n1, n2).num >= 4 * getTokenOverlapScore(n1, n2).den

\* C19: when the name on a supporting document matches the member's name at
\* any of the three tiers, the identity rule reports a name match for it and
\* no name inconsistency.
IdentityNameTiers ==
    (runs > 0 /\ rules = IdentityRules) =>
        LET m   == caseData.members[1]
            ext == SupportingOf(caseData, m.id)[1]
        IN  (/\ m.fullName # NoName /\ ext.personName # NoName
             /\ NameTiersMatch(m.fullName, ext.personName))
            => /\ \E f \in 1..Len(findings) : findings[f].summary = "Verified: Name match"
               /\ \A f \in 1..Len(findings) : findings[f].summary # "Name inconsistency"

----------------------------------------------------------------------------
(* Properties of education matching *)

\* institution, field of study and date range of the row are all there
RowComplete(row) ==
    /\ row.institution # NoName /\ row.fieldOfStudy # NoName
    /\ row.from.k # "null" /\ row.to.k # "null"

\* the claim that repeats the row
SameClaim(row, credential) ==
    [institution |-> row.institution, fieldOfStudy |-> row.fieldOfStudy,
     credential |-> credential, fromMonth |-> row.from, toMonth |-> row.to]

\* two names without a common token
DisjointNames(n1, n2) ==
    n1 # NoName /\ n2 # NoName /\ TokenSetOf(normalizeName(n1)) \cap TokenSetOf(normalizeName(n2)) = {}

\* the month of the run, for PRESENT
EduEnd(to) == IF to = PresentStr THEN CurrentMonth ELSE K(to)

\* two date ranges without a common month
DisjointRanges(row, claim) ==
    /\ claim.fromMonth.k # "null" /\ claim.toMonth.k # "null"
    /\ \/ EduEnd(row.to) < K(claim.fromMonth)
       \/ EduEnd(claim.toMonth) < K(row.from)

\* the claim repeats the row but for one dimension, which is disjoint
OneDimensionDisjoint(row, claim) ==
    LET same == SameClaim(row, claim.credential) IN
    \/ claim = [same EXCEPT !.institution = claim.institution]
          /\ DisjointNames(row.institution, claim.institution)
    \/ claim = [same EXCEPT !.fieldOfStudy = claim.fieldOfStudy]
          /\ DisjointNames(row.fieldOfStudy, claim.fieldOfStudy)
    \/ claim = [same EXCEPT !.fromMonth = claim.fromMonth, !.toMonth = claim.toMonth]
          /\ DisjointRanges(row, claim)

\* C20: the score lies in [0, 1]; for a complete row the claim that repeats it
\* scores exactly 1, and a claim that repeats it but for one dimension, which
\* is disjoint, scores strictly less than the repeating claim does.
EducationScoreLaws ==
    pc = "matched" =>
        /\ 0 <= eduScore.num /\ eduScore.num <= eduScore.den /\ eduScore.den > 0
        /\ (RowComplete(eduRow) /\ eduClaim = SameClaim(eduRow, eduClaim.credential))
              => eduScore.num = eduScore.den
        /\ (RowComplete(eduRow) /\ OneDimensionDisjoint(eduRow, eduClaim))
              => FracLess(eduScore,
                          scoreEducationMatch(eduRow, SameClaim(eduRow, eduClaim.credential), today))

\* the ratio the claim describes, for four month numbers
ExpectedOverlap(rs, re, cs, ce) ==
    LET shared == (rs..re) \cap (cs..ce)
        rowSpan == re - rs + 1
        claimSpan == ce - cs + 1
    IN  IF shared = {} THEN Frac(0, 1)
        ELSE IF Abs(rs - cs) <= 1 /\ Abs(re - ce) <= 1 THEN Frac(1, 1)
        ELSE Frac(Cardinality(shared), IF rowSpan >= claimSpan THEN rowSpan ELSE claimSpan)

\* a = b for two fractions
FracEq(a, b) == a.num * b.den = b.num * a.den

\* C21: the overlap ratio is 0 when the ranges share no month, 1 when they
\* intersect and start and end each differ by at most one month, otherwise
\* shared months / the longer span; and it is symmetric in row and claim.
OverlapRatioLaw ==
    (pc = "matched" /\ DatesPresent(eduRow, eduClaim)) =>
        /\ FracEq(eduOverlap,
                  ExpectedOverlap(K(eduRow.from), EduEnd(eduRow.to),
                                  K(eduClaim.fromMonth), EduEnd(eduClaim.toMonth)))
        /\ FracEq(eduOverlap,
                  calculateDateOverlap(eduClaim.fromMonth, eduClaim.toMonth,
                                       eduRow.from, eduRow.to, today))

\* the score of the i-th claim handed in
ScoreOf(i) == scoreEducationMatch(eduRow, eduClaims[i], today)

\* C22: findBestEducationMatch returns none iff no claim scores at or above
\* the threshold; otherwise it returns, with its score, the first claim in
\* sequence order whose score is the maximum over all claims.
BestMatchLaw ==
    pc = "found" =>
        /\ bestMatch = NoMatch <=>
              \A i \in 1..Len(eduClaims) : FracLess(ScoreOf(i), threshold)
        /\ bestMatch # NoMatch =>
              /\ bestMatch.index \in 1..Len(eduClaims)
              /\ bestMatch.claim = eduClaims[bestMatch.index]
              /\ bestMatch.score = ScoreOf(bestMatch.index)
              /\ \A i \in 1..Len(eduClaims) : ~FracLess(bestMatch.score, ScoreOf(i))
              /\ \A i \in 1..(bestMatch.index - 1) : FracLess(ScoreOf(i), bestMatch.score)

\* two claims tie for the maximum, which reaches the threshold, and a lower one precedes them
BestMatchWitness ==
    /\ pc = "found"
    /\ Len(eduClaims) = 3
    /\ bestMatch # NoMatch
    /\ bestMatch.index = 2
    /\ FracEq(ScoreOf(2), ScoreOf(3))
    /\ eduClaims[2] # eduClaims[3]
    /\ FracLess(ScoreOf(1), ScoreOf(2))

----------------------------------------------------------------------------
(* Properties of the checks on the family roster *)

\* the records of a family information extract
RosterOf(fi) ==
    (IF fi.applicant = NoRow THEN {} ELSE {fi.applicant})
    \cup (IF fi.spouse = NoRow THEN {} ELSE {fi.spouse})
    \cup {fi.children[i] : i \in 1..Len(fi.children)}

\* a record without a name or without a date of birth
LacksSubField(row) == row.name = NoName \/ row.dob = NullStr

\* C23: an active completeness_check rule yields at least one finding when a
\* family roster record of the case lacks a required sub-field.
CompletenessFlags ==
    runs > 0 =>
        \A i \in 1..Len(rules) :
            (/\ rules[i].type = "completeness_check"
             /\ rules[i].active
             /\ \E e \in 1..Len(caseData.extracted.familyInfoByMember) :
                    \E row \in RosterOf(caseData.extracted.familyInfoByMember[e].ex) :
                        LacksSubField(row))
            => \E f \in 1..Len(findings) : findings[f].ruleId = rules[i].id

----------------------------------------------------------------------------
(* Properties of checkDateMatch *)

\* verifiedLabel?.includes("Personal history"), over the labels of the model
MentionsPersonalHistory(label) == label \in {"Personal history", "Personal history verified"}

\* a date of a relevant supporting extract starts with the row's from or to
Corroborated(c, id, row) ==
    \E x \in 1..Len(SupportingOf(c, id)) :
        LET ext == SupportingOf(c, id)[x] IN
        /\ ext.docType \in HistoryDocTypes
        /\ \E i \in 1..Len(ext.dates) :
              \/ row.from.k # "null" /\ startsWith(ext.dates[i], row.from)
              \/ row.to.k # "null" /\ ext.dates[i] = row.to

\* C24: with an active date_match_check rule on personal history, a row whose
\* dates a relevant supporting extract corroborates yields a finding of that
\* rule with status PASS and a verifiedLabel that contains "Personal history".
DateMatchPasses ==
    runs > 0 =>
        \A i \in 1..Len(rules) :
            (/\ rules[i].type = "date_match_check"
             /\ rules[i].active
             /\ rules[i].section = "personal_history"
             /\ \E e \in 1..Len(caseData.extracted.scheduleAByMember) :
                    LET entry == caseData.extracted.scheduleAByMember[e] IN
                    /\ MemberIndex(caseData, entry.id) # 0
                    /\ \E x \in 1..Len(entry.ex.personalHistory) :
                          Corroborated(caseData, entry.id, entry.ex.personalHistory[x]))
            => \E f \in 1..Len(findings) :
                  /\ findings[f].ruleId = rules[i].id
                  /\ findings[f].status = "PASS"
                  /\ MentionsPersonalHistory(findings[f].verifiedLabel)

----------------------------------------------------------------------------
(* Properties of checkRequiredDocs *)

\* the findings of the last run that rule r made for member m
FindingsFor(r, m) ==
    {f \in 1..Len(findings) : findings[f].ruleId = r.id /\ findings[f].memberId = m.id}

\* the one finding the claim gives to member m under rule r
RequiredDocSummary(r, m) ==
    IF memberIsMinor(m) THEN "Verified: Minor"
    ELSE IF FormPresent(caseData, r, m) THEN "Verified: present"
    ELSE "Missing form"

\* an active required_doc_check rule as RuleSchema describes it
RequiredDocRules ==
    {i \in 1..Len(rules) :
        /\ rules[i].type = "required_doc_check"
        /\ rules[i].active
        /\ rules[i].hasTemplate
        /\ rules[i].requiredForm \in {"SCHEDULE_A", "FAMILY_INFO"}}

\* C25: under a required_doc_check rule for form F every member gets exactly
\* one finding of the rule: for a member who is not a minor the 'missing'
\* finding with the rule's severity iff the member has no F extract and the
\* INFO 'present' finding otherwise; a minor is never reported as missing F.
RequiredDocPerMember ==
    runs > 0 =>
        \A i \in RequiredDocRules :
            \A x \in 1..Len(caseData.members) :
                LET r == rules[i]
                    m == caseData.members[x]
                IN  /\ Cardinality(FindingsFor(r, m)) = 1
                    /\ \A f \in FindingsFor(r, m) :
                          /\ findings[f].summary = RequiredDocSummary(r, m)
                          /\ findings[f].severity =
                                IF findings[f].summary = "Missing form" THEN r.severity ELSE "INFO"

\* a run with a minor and an adult who both lack the form, under a rule for it
RequiredDocWitness ==
    /\ runs > 0
    /\ \E i \in RequiredDocRules :
          /\ \E x \in 1..Len(caseData.members) :
                memberIsMinor(caseData.members[x]) /\ ~FormPresent(caseData, rules[i], caseData.members[x])
          /\ \E x \in 1..Len(caseData.members) :
                ~memberIsMinor(caseData.members[x]) /\ ~FormPresent(caseData, rules[i], caseData.members[x])

----------------------------------------------------------------------------
(* Properties of the checks on sparse data *)

\* the active rules that RuleSchema describes (with a messageTemplate)
SchemaRules == {i \in 1..Len(rules) : rules[i].active /\ rules[i].hasTemplate}

\* C26: whatever optional data the snapshot lacks, the check of every rule
\* returns its list of findings and does not raise.
ChecksDoNotRaise ==
    runs > 0 =>
        /\ ~raised
        /\ \A i \in SchemaRules : ~Dispatch(caseData, rules[i], runAt).threw

\* a run of years_box_check on a Schedule A without yearsBoxes and without
\* identity, of a member without date of birth and age
ChecksDoNotRaiseWitness ==
    /\ runs > 0
    /\ \E i \in SchemaRules : rules[i].type = "years_box_check"
    /\ caseData.members[1].dob = NullStr
    /\ caseData.members[1].age = NoAge
    /\ Len(caseData.extracted.scheduleAByMember) = 1
    /\ caseData.extracted.scheduleAByMember[1].ex.yearsBox = NoBox
    /\ ~caseData.extracted.scheduleAByMember[1].ex.identity.present
    /\ Len(caseData.extracted.scheduleAByMember[1].ex.personalHistory) > 0
    /\ caseData.extracted.scheduleAByMember[1].ex.personalHistory[1].from = NullStr

\* a row with both endpoints usable: findGaps keeps it
RowUsable(row) ==
    /\ row.from.k \in {"ym", "ymd", "present"}
    /\ row.to.k \in {"ym", "ymd", "present"}

\* the findings of gap rule r for the member of entry
GapRuleFindings(r, entry) ==
    {f \in 1..Len(findings) : findings[f].ruleId = r.id /\ findings[f].memberId = entry.id}

\* C29: gap_check reports 'Verified: No gaps' for a member and section only
\* when a row of the section has both endpoints usable; a member none of whose
\* rows has gets no finding of the rule.
VerifiedOnlyWhenChecked ==
    runs > 0 =>
        \A i \in 1..Len(rules) :
            (rules[i].type = "gap_check" /\ rules[i].active) =>
                \A e \in 1..Len(caseData.extracted.scheduleAByMember) :
                    LET entry == caseData.extracted.scheduleAByMember[e]
                        rows  == SectionRows(entry.ex, rules[i].section)
                    IN  (\A x \in 1..Len(rows) : ~RowUsable(rows[x]))
                        => GapRuleFindings(rules[i], entry) = {}

----------------------------------------------------------------------------
(* Properties of assignPAFromScheduleA *)

\* the indices of the members with relationship PA
PrincipalApplicants(members) == {x \in 1..Len(members) : members[x].relationship = "PA"}

\* the form keyed by id declares the principal applicant
DeclaresPA(id) ==
    \E e \in 1..Len(caseData.extracted.scheduleAByMember) :
        /\ caseData.extracted.scheduleAByMember[e].id = id
        /\ caseData.extracted.scheduleAByMember[e].ex.applicantType = "PRINCIPAL_APPLICANT"

----------------------------------------------------------------------------
(* Properties of buildMembersFromFamilyInfo *)

\* the date of birth lies less than 18 years before the day now, and not after it
BornWithin18Years(dob, now) ==
    /\ dob.k = "ymd"
    /\ <<dob.y, dob.m, dob.d>> # <<now.year - 18, now.month + 1, now.date>>
    /\ DateLess(Date(now.year - 18, now.month, now.date), Date(dob.y, dob.m - 1, dob.d))
    /\ ~DateLess(now, Date(dob.y, dob.m - 1, dob.d))

\* the members built from a roster record
BuiltFrom(row) ==
    {x \in 1..Len(caseData.members) :
        caseData.members[x].fullName = row.name /\ caseData.members[x].dob = row.dob}

\* C28: a member built from a roster record with a date of birth less than
\* 18 years before today is a minor for the engine: gap_check makes no finding
\* for the member and required_doc_check reports no missing form.
BuiltMinorsExempt ==
    runs > 0 =>
        \A row \in RosterOf(roster) :
            (row.name # NoName /\ BornWithin18Years(row.dob, runAt)) =>
                \A x \in BuiltFrom(row) :
                    /\ memberIsMinor(caseData.members[x])
                    /\ \A f \in 1..Len(findings) :
                          findings[f].memberId = caseData.members[x].id
                            => findings[f].summary \notin {"Missing form", "Gap", "Verified: No gaps"}

----------------------------------------------------------------------------
(* Properties of the server actions *)

\* the case file after request req has run alone on the file fs
RunAlone(req, fs) == IF Saves(req, fs) THEN CaseToSave(req, fs) ELSE fs

\* C30: when two requests on one case have run concurrently and both are
\* done, no update is lost: the case file is what the two leave when one runs
\* after the other; for two toggles of different findings it has both flags.
NoLostUpdate ==
    (pc = "store" /\ requests[1].pc = "done" /\ requests[2].pc = "done") =>
        \/ stored = RunAlone(requests[2], RunAlone(requests[1], storedAtStart))
        \/ stored = RunAlone(requests[1], RunAlone(requests[2], storedAtStart))

====
